---- MODULE Spec2Model ----
(***************************************************************************)
(* QC_TOOL browser client: the configuration-and-results orchestration     *)
(* engine (App, QCRules, DataSource, Results) as a state machine.           *)
(*                                                                          *)
(* One action per handler.  An asynchronous handler is two actions: the     *)
(* synchronous part up to its first await (dispatch) and the continuation   *)
(* that runs when the awaited response settles.  JavaScript is single       *)
(* threaded, so each part is atomic; the interleavings are the orders in    *)
(* which user events and responses arrive.                                  *)
(*                                                                          *)
(* Handlers take the values the user typed or selected as parameters; each  *)
(* specification draws them from the input sets it names.                   *)
(***************************************************************************)
EXTENDS Naturals, Integers, Sequences, FiniteSets, TLC

\* ------------------------------------------------------------------ bounds
\* Overlay-showing operations dispatched in one behaviour.
MaxOps == 2
\* Configured rules held at once.
MaxRules == 2
\* Stand-alone loadSessions calls (refresh button) in one behaviour.
MaxRefresh == 1
\* deleteSession / renameSource calls in one behaviour.
MaxEdits == 1
\* loadPageData calls of the data viewer in one behaviour.
MaxPreviews == 3

\* ------------------------------------------------------- JavaScript values
Null == "null"
Undefined == "undefined"

\* JS truthiness of an identifier-like value (string, null or undefined).
TruthyId(x) == x # Null /\ x # Undefined /\ x # ""

\* Ordered subsequences of a sequence without repetition (selected options of
\* a <select multiple> come back in option order).
RECURSIVE SubSeqs(_)
SubSeqs(s) ==
    IF s = <<>> THEN {<<>>}
    ELSE LET rest == SubSeqs(Tail(s))
         IN  rest \cup {<<Head(s)>> \o r : r \in rest}

Range(s) == {s[i] : i \in DOMAIN s}

\* Array.prototype.filter over a sequence.
RECURSIVE FilterSeq(_, _)
FilterSeq(s, keep) ==
    IF s = <<>> THEN <<>>
    ELSE IF Head(s) \in keep THEN <<Head(s)>> \o FilterSeq(Tail(s), keep)
         ELSE FilterSeq(Tail(s), keep)

\* ---------------------------------------------------------------- sessions
\* A session record.  Records listed by the backend carry the identifier under
\* both names the client revisions read (session_id, source_id); records built
\* by uploadFiles / runQuery carry source_id only, so session_id reads undefined.
Session(id, sid, cols) ==
    [source_id |-> id, session_id |-> sid, columns |-> cols, source_name |-> id]

\* The sources the backend holds when the page loads.
BackendInitial ==
    << Session("s1", "s1", <<"a", "b">>),
       Session("s2", "s2", <<"b", "c">>) >>

\* Three sources whose column lists overlap in different orders.
BackendThree ==
    << Session("s1", "s1", <<"a", "b", "c">>),
       Session("s2", "s2", <<"b", "c", "d">>),
       Session("s3", "s3", <<"c", "e", "a">>) >>

\* The source the backend creates for file k of upload i, or (k = 1) for query i.
NewSourceId(i, k) ==
    << <<"u1", "v1">>, <<"u2", "v2">>, <<"u3", "v3">>, <<"u4", "v4">> >>[i][k]
NewSourceColumns == <<"b", "d">>

\* The opaque result token the backend issues for the request of operation i.
ResultIdOf(i) == <<"r1", "r2", "r3", "r4">>[i]

\* --------------------------------------------------------------- rule schemas
\* typ: the schema property's "type"; enum: whether it lists enum values;
\* default: the property's default ("true" / "false" for a boolean one), or
\* undefined.
Prop(key, typ, enum, default) == [key |-> key, typ |-> typ, enum |-> enum, default |-> default]

\* The validators GET /api/qc/rules offers (App.state.availableRules).
AvailableRules ==
    << [id |-> "range_check", name |-> "Range Check",
        properties |-> << Prop("column", "string", FALSE, Undefined),
                          Prop("min_value", "number", FALSE, Undefined),
                          Prop("inclusive", "boolean", FALSE, "true") >>,
        required |-> <<"column", "min_value">>],
       [id |-> "uniqueness", name |-> "Uniqueness",
        properties |-> << Prop("columns", "array", FALSE, Undefined),
                          Prop("mode", "string", TRUE, "loose"),
                          Prop("label", "string", FALSE, Undefined) >>,
        required |-> <<"columns">>] >>

RuleIds == {AvailableRules[i].id : i \in DOMAIN AvailableRules}
\* App.state.availableRules.find(r => r.id === id)
RuleById(rules, id) == CHOOSE r \in Range(rules) : r.id = id

\* key.includes('column')
KeyIncludesColumn(key) == key \in {"column", "columns", "key_columns", "group_by_column"}

\* A form generator that tests for an enumeration before it tests the name.
WidgetOfEnumFirst(p) ==
    IF p.typ = "array" /\ (KeyIncludesColumn(p.key) \/ p.key = "group_by") THEN "multiselect"
    ELSE IF p.enum THEN "enum"
    ELSE IF p.key = "column" \/ KeyIncludesColumn(p.key) THEN "select"
    ELSE IF p.typ = "boolean" THEN "checkbox"
    ELSE IF p.typ = "number" \/ p.typ = "integer" THEN "number"
    ELSE "text"

\* The widget generateFormFields draws for a property, by first matching branch.
WidgetOf(p) ==
    IF p.typ = "array" /\ (KeyIncludesColumn(p.key) \/ p.key = "group_by") THEN "multiselect"
    ELSE IF p.key = "column" \/ KeyIncludesColumn(p.key) THEN "select"
    ELSE IF p.enum THEN "enum"
    ELSE IF p.typ = "boolean" THEN "checkbox"
    ELSE IF p.typ = "number" \/ p.typ = "integer" THEN "number"
    ELSE "text"

\* QCRules.generateFormFields(schema, columns): for each property, in schema
\* order, the control drawn, the options it lists after any placeholder, and
\* what it holds before the user touches it (a select without a selected
\* option shows its first one).
GenerateFormFields(properties, columns) ==
    [i \in DOMAIN properties |->
        LET prop == properties[i]
            kind == WidgetOf(prop)
            truthy == prop.default \notin {Undefined, "false", ""}
        IN  [key |-> prop.key,
             kind |-> kind,
             options |-> IF kind \in {"multiselect", "select"} THEN columns
                         ELSE IF kind = "enum" THEN <<"strict", "loose">>
                         ELSE <<>>,
             initial |-> CASE kind \in {"multiselect", "select"} -> ""
                           [] kind = "enum" ->
                                IF prop.default \in {"strict", "loose"} THEN prop.default
                                ELSE "strict"
                           [] kind = "checkbox" -> IF truthy THEN "checked" ELSE ""
                           [] OTHER -> IF truthy THEN prop.default ELSE ""] ]

\* QCRules.renderActiveRules(): the count it writes and runQcBtn.disabled.
RenderActiveRules(rules) == [count |-> Len(rules), runDisabled |-> Len(rules) = 0]

\* ------------------------------------------------------------ config values
BoolV(b) == [t |-> "boolean", b |-> b, n |-> 0, s |-> "", a |-> <<>>]
NumV(n) == [t |-> "number", b |-> FALSE, n |-> n, s |-> "", a |-> <<>>]
StrV(s) == [t |-> "string", b |-> FALSE, n |-> 0, s |-> s, a |-> <<>>]
ArrV(a) == [t |-> "array", b |-> FALSE, n |-> 0, s |-> "", a |-> a]

\* JS truthiness of a config value (NaN is never stored).
TruthyV(v) ==
    CASE v.t = "boolean" -> v.b
      [] v.t = "number" -> v.n # 0
      [] v.t = "string" -> v.s # ""
      [] v.t = "array" -> TRUE

\* parseFloat of the text of a number input: nan, or the number.
ParseFloat(text) ==
    CASE text = "0" -> [nan |-> FALSE, n |-> 0]
      [] text = "7" -> [nan |-> FALSE, n |-> 7]
      [] text = "80" -> [nan |-> FALSE, n |-> 80]
      [] text = "150" -> [nan |-> FALSE, n |-> 150]
      [] text = "-3" -> [nan |-> FALSE, n |-> -3]
      [] OTHER -> [nan |-> TRUE, n |-> 0]

\* ---------------------------------------------------------------- form input
\* The state of one form control when the user presses "Add rule".
Control(checked, selected, value) ==
    [checked |-> checked, selected |-> selected, value |-> value]

PropKeys(rule) == {rule.properties[i].key : i \in DOMAIN rule.properties}

\* The control states of a list of properties, one per property, in order:
\* what the user can leave in the control generateFormFields drew for each.
RECURSIVE ControlsOver(_, _)
ControlsOver(props, columns) ==
    LET ControlInputs(p) ==
            CASE WidgetOf(p) = "multiselect" ->
                    {Control(FALSE, sel, "") : sel \in SubSeqs(columns)}
              [] WidgetOf(p) = "select" ->
                    {Control(FALSE, <<>>, v) : v \in {""} \cup Range(columns)}
              [] WidgetOf(p) = "enum" ->
                    {Control(FALSE, <<>>, v) : v \in {"strict", "loose"}}
              [] WidgetOf(p) = "checkbox" ->
                    {Control(c, <<>>, "") : c \in BOOLEAN}
              [] WidgetOf(p) = "number" ->
                    {Control(FALSE, <<>>, v) : v \in {"", "0", "7", "abc"}}
              [] OTHER ->
                    {Control(FALSE, <<>>, v) : v \in {"", "x"}}
    IN  IF props = <<>> THEN {<<>>}
        ELSE { <<c>> \o rest : c \in ControlInputs(Head(props)),
                               rest \in ControlsOver(Tail(props), columns) }

\* Every form the user can submit for a rule drawn over the given columns.
AllForms(rule, columns) ==
    { [k \in PropKeys(rule) |->
          t[CHOOSE i \in DOMAIN rule.properties : rule.properties[i].key = k]] :
        t \in ControlsOver(rule.properties, columns) }

\* A gathering loop that keeps a parsed number only when it is truthy.
HasValueTruthy(p, c) ==
    CASE WidgetOf(p) = "checkbox" -> TRUE
      [] WidgetOf(p) = "multiselect" -> TRUE
      [] WidgetOf(p) = "number" -> ~ParseFloat(c.value).nan /\ ParseFloat(c.value).n # 0
      [] OTHER -> c.value # ""

\* What addRuleFromModal gathers from the form: the keys it sets, and their values.
HasValue(p, c) ==
    CASE WidgetOf(p) = "checkbox" -> TRUE
      [] WidgetOf(p) = "multiselect" -> TRUE
      [] WidgetOf(p) = "number" -> ~ParseFloat(c.value).nan
      [] OTHER -> c.value # ""

SerializeForm(rule, form) ==
    LET PropOf(key) == CHOOSE p \in Range(rule.properties) : p.key = key
        ValueOf(p, c) ==
            CASE WidgetOf(p) = "checkbox" -> BoolV(c.checked)
              [] WidgetOf(p) = "multiselect" -> ArrV(c.selected)
              [] WidgetOf(p) = "number" -> NumV(ParseFloat(c.value).n)
              [] OTHER -> StrV(c.value)
    IN  [k \in {k \in PropKeys(rule) : HasValue(PropOf(k), form[k])} |->
            ValueOf(PropOf(k), form[k])]

\* A required-field test that stops at `!config[field]`: an empty array is
\* truthy, so it lets an empty selection through.
FieldFalsy(config, field) ==
    \/ field \notin DOMAIN config
    \/ ~TruthyV(config[field])

\* !config[field] || (Array.isArray(config[field]) && config[field].length === 0)
FieldMissing(config, field) ==
    \/ field \notin DOMAIN config
    \/ ~TruthyV(config[field])
    \/ (config[field].t = "array" /\ config[field].a = <<>>)

\* ------------------------------------------------------------- Results: csv
\* Rows a table shows before "Show all" is pressed.
InitialShow == 20

\* A value of a row: a string (its characters), a number (a non-negative
\* integer), null or undefined.
Cell(t, s, n) == [t |-> t, s |-> s, n |-> n]

\* A row object: its keys in insertion order, and their values.
Row(keys, cells) == [keys |-> keys, cells |-> cells]


\* String(n) of a non-negative integer.
RECURSIVE Digits(_)
Digits(n) ==
    IF n < 10 THEN << <<"0", "1", "2", "3", "4", "5", "6", "7", "8", "9">>[n + 1] >>
    ELSE Digits(n \div 10) \o Digits(n % 10)

\* An escape that wraps a field without doubling the quotes inside it.
KeepQuotes(str) == str

\* str.replace(/"/g, '""')
RECURSIVE DoubleQuotes(_)
DoubleQuotes(str) ==
    IF str = <<>> THEN <<>>
    ELSE (IF Head(str) = "\"" THEN <<"\"", "\"">> ELSE <<Head(str)>>)
            \o DoubleQuotes(Tail(str))

\* escapeCSV(val)
EscapeCSV(val) ==
    IF val.t \in {"null", "undefined"} THEN <<>>
    ELSE LET str == IF val.t = "number" THEN Digits(val.n) ELSE val.s
         IN  IF \E k \in DOMAIN str : str[k] \in {",", "\"", "\n"}
             THEN <<"\"">> \o DoubleQuotes(str) \o <<"\"">>
             ELSE str

\* fields.join(',') + '\n'
RECURSIVE CsvLine(_)
CsvLine(fields) ==
    IF Len(fields) = 0 THEN <<"\n">>
    ELSE IF Len(fields) = 1 THEN fields[1] \o <<"\n">>
    ELSE fields[1] \o <<",">> \o CsvLine(Tail(fields))

\* The text both exports build: the header line, then one line per row (the
\* lines of the first half of the rows, then those of the second half).
\* row[c] is undefined when the row has no such key.
RECURSIVE CsvRows(_, _)
CsvRows(columns, rows) ==
    IF rows = <<>> THEN <<>>
    ELSE IF Len(rows) = 1
    THEN LET Get(row, c) ==
                 IF \E k \in DOMAIN row.keys : row.keys[k] = c
                 THEN row.cells[CHOOSE k \in DOMAIN row.keys : row.keys[k] = c]
                 ELSE Cell("undefined", <<>>, 0)
         IN  CsvLine([k \in DOMAIN columns |-> EscapeCSV(Get(rows[1], columns[k]))])
    ELSE CsvRows(columns, SubSeq(rows, 1, Len(rows) \div 2))
            \o CsvRows(columns, SubSeq(rows, Len(rows) \div 2 + 1, Len(rows)))

CsvText(columns, rows) ==
    CsvLine([k \in DOMAIN columns |-> EscapeCSV(Cell("string", columns[k], 0))])
        \o CsvRows(columns, rows)

\* No export has run.
NoDownload == [file |-> "none", index |-> 0, csv |-> <<>>]

\* ------------------------------------------------------------------- state
VARIABLES
    currentView,        \* App.state.currentView
    sessions,           \* App.state.sessions
    activeSession,      \* App.state.activeSession
    qcResults,          \* App.state.qcResults
    resultId,           \* App.state.resultId
    availableRules,     \* App.state.availableRules
    stateActiveRules,   \* App.state.activeRules
    activeRules,        \* QCRules.activeRules
    currentRuleConfig,  \* QCRules.currentRuleConfig (its rule_id, or null)
    formColumns,        \* the column options drawn in the open rule form
    formWidgets,        \* the controls drawn in the open rule form, one per property
    rulesPanel,         \* activeRuleCount's number and runQcBtn.disabled
    rendered,           \* the result list drawn in resultsSummary / resultsDetail
    resultData,         \* Results._resultData, by resultIdx
    groupedAggData,     \* Results._groupedAggData, by resultIdx
    tableBody,          \* the rows drawn in each card's failed-rows table
    download,           \* the file the last export handed to the browser
    resultsShown,       \* resultsContainer is not hidden
    overlay,            \* loadingOverlay: "hidden" or "visible"
    lastToast,          \* the toast shown last
    ops,                \* overlay-showing operations, in dispatch order
    loads,              \* stand-alone loadSessions / loadAvailableRules requests in flight
    refreshes,          \* refresh-button presses so far
    backend,            \* the sources the backend holds
    lastResp,           \* the settled fetch the handler that ran last has read
    edits,              \* deleteSession / renameSource calls, in call order
    renameSessionId,    \* DataSource.renameSessionId
    compareChecked,     \* the checked compare-source boxes, in the order checked
    keyOptions,         \* the options of compareKeyColumns / compareValueColumns
    listed,             \* the list GET /api/data/sources returned last
    runCompareDisabled, \* runCompareBtn.disabled
    viewerSession,      \* DataSource.viewerSession
    viewerPage,         \* DataSource.viewerPage
    viewerPageSize,     \* DataSource.viewerPageSize
    viewerTotalRows,    \* DataSource.viewerTotalRows
    previews,           \* loadPageData calls, in call order
    viewerBody,         \* the rows drawn in dataViewerBody: whose, from where, how many
    pageIndicator,      \* the page number pageIndicator shows (0: nothing yet)
    formulaView         \* formulaSource1/2, formulaMatchBy and the formulaKeyColumns options

vars ==
    << currentView, sessions, activeSession, qcResults, resultId, availableRules,
       stateActiveRules, activeRules, currentRuleConfig, formColumns, formWidgets,
       rulesPanel, rendered, resultData, groupedAggData, tableBody, download,
       resultsShown, overlay, lastToast, ops, loads, refreshes, backend, lastResp,
       edits, renameSessionId, compareChecked, keyOptions, listed, runCompareDisabled,
       viewerSession, viewerPage, viewerPageSize, viewerTotalRows, previews, viewerBody,
       pageIndicator, formulaView >>

\* The data viewer.
viewerVars ==
    << viewerSession, viewerPage, viewerPageSize, viewerTotalRows, previews, viewerBody,
       pageIndicator >>

\* The rename dialog, the pending edits, the compare view's selection, the
\* data viewer and the formula calculator's selects.
dialogVars ==
    << edits, renameSessionId, compareChecked, keyOptions, viewerVars, formulaView >>
viewVars == << dialogVars, listed, runCompareDisabled >>
ruleVars ==
    << availableRules, stateActiveRules, activeRules, currentRuleConfig, formColumns,
       formWidgets, rulesPanel >>
resultVars ==
    << qcResults, resultId, rendered, resultData, groupedAggData, tableBody, download,
       resultsShown >>
sessionVars == << sessions, activeSession, backend >>
loadVars == << loads, refreshes >>

\* qcResults is null, undefined or an array of results.
NullResults == [tag |-> "null", items |-> <<>>]
ListResults(items) == [tag |-> "list", items |-> items]

Toast(type, text, detail) == [type |-> type, text |-> text, detail |-> detail]
\* The state once DOMContentLoaded has run App.init, DataSource.init, QCRules.init
\* and Results.init: both initial fetches are in flight, nothing is shown.
Init ==
    /\ currentView = "data"
    /\ sessions = <<>>
    /\ activeSession = Null
    /\ qcResults = NullResults
    /\ resultId = Null
    /\ availableRules = <<>>
    /\ stateActiveRules = <<>>
    /\ activeRules = <<>>
    /\ currentRuleConfig = Null
    /\ formColumns = <<>>
    /\ formWidgets = <<>>
    /\ rulesPanel = RenderActiveRules(activeRules)
    /\ rendered = <<>>
    /\ resultData = <<>>
    /\ groupedAggData = <<>>
    /\ tableBody = <<>>
    /\ download = NoDownload
    /\ resultsShown = FALSE
    /\ overlay = "hidden"
    /\ lastToast = Toast("none", "", "")
    /\ ops = <<>>
    /\ loads = [sessions |-> 1, rules |-> 1]
    /\ refreshes = 0
    /\ backend \in {BackendInitial, BackendThree}
    /\ lastResp = [transport |-> "none", ok |-> FALSE, success |-> FALSE,
                   error |-> Undefined, payload |-> [none |-> TRUE]]
    /\ edits = <<>>
    /\ renameSessionId = Undefined
    /\ viewerSession = Null
    /\ viewerPage = 0
    /\ viewerPageSize = 50
    /\ viewerTotalRows = 0
    /\ previews = <<>>
    /\ viewerBody = [session |-> Null, offset |-> 0, limit |-> 0]
    /\ pageIndicator = 0
    /\ formulaView = [source1 |-> "", source2 |-> "", matchBy |-> "", keyOptions |-> <<>>]
    /\ compareChecked = <<>>
    /\ keyOptions = <<>>
    /\ listed = <<>>
    /\ runCompareDisabled = TRUE

\* ---------------------------------------------------------- App: view, overlay
\* A hideLoading that leaves the overlay as it is.
KeepLoading(ov) == ov

HideLoading(ov) == "hidden"

\* updateResultsView: the container shows whenever qcResults !== null.
UpdateResultsView(results) == results.tag # "null"

\* Results.render(results): an absent or empty list hides the container and
\* draws nothing.  Otherwise renderDetails draws one card per result: the first
\* InitialShow failed rows of a result that has any, whose rows and columns
\* (the keys of its first row) it keeps under the result's 0-based index, and
\* likewise the grouped rows.  Entries of indices that draw no table stay.
Render(results) ==
    IF results.tag # "list" \/ results.items = <<>>
    THEN UNCHANGED << rendered, resultData, groupedAggData, tableBody >>
    ELSE LET items == results.items
             withRows == {i - 1 : i \in {j \in DOMAIN items : items[j].failed_rows # <<>>}}
             withGroups == {i - 1 : i \in {j \in DOMAIN items : items[j].grouped_table # <<>>}}
         IN  /\ rendered' = items
             /\ tableBody' =
                    [i \in DOMAIN items |->
                        [k \in 1..(IF Len(items[i].failed_rows) < InitialShow
                                   THEN Len(items[i].failed_rows) ELSE InitialShow) |->
                            items[i].failed_rows[k]]]
             /\ resultData' =
                    [i \in DOMAIN resultData \cup withRows |->
                        IF i \in withRows
                        THEN [rows |-> items[i + 1].failed_rows,
                              columns |-> items[i + 1].failed_rows[1].keys,
                              initialShow |-> InitialShow,
                              expanded |-> FALSE]
                        ELSE resultData[i]]
             /\ groupedAggData' =
                    [i \in DOMAIN groupedAggData \cup withGroups |->
                        IF i \in withGroups THEN items[i + 1].grouped_table
                        ELSE groupedAggData[i]]

\* updateCompareView: what it leaves in runCompareBtn.disabled.
UpdateCompareView(list) == Len(list) < 2

\* App.switchView(viewName); the qc refresh only redraws from state.
SwitchView(viewName) ==
    /\ currentView' = viewName
    /\ resultsShown' = IF viewName = "results" THEN UpdateResultsView(qcResults)
                       ELSE resultsShown
    /\ runCompareDisabled' = IF viewName = "compare" THEN UpdateCompareView(sessions)
                             ELSE runCompareDisabled

\* A click on a navigation button.
Navigate(viewName) ==
    /\ SwitchView(viewName)
    /\ UNCHANGED << sessions, activeSession, qcResults, resultId, availableRules,
                    stateActiveRules, activeRules, currentRuleConfig, formColumns,
                    formWidgets, rulesPanel, rendered, resultData, groupedAggData,
                    tableBody, download, overlay, lastToast, ops, loads, refreshes,
                    backend, lastResp, dialogVars, listed >>

\* A setResults that drops a response whose token was issued before the one
\* held (a staleness guard the code does not have).
SetResultsUnlessStale(results, rid) ==
    IF \E i, j \in 1..4 : ResultIdOf(i) = rid /\ ResultIdOf(j) = resultId /\ i < j
    THEN /\ UNCHANGED << qcResults, resultId, rendered, resultData, groupedAggData, tableBody >>
         /\ resultsShown' = UpdateResultsView(qcResults)
         /\ currentView' = "results"
         /\ UNCHANGED download
    ELSE /\ qcResults' = results
         /\ resultId' = rid
         /\ Render(results)
         /\ resultsShown' = UpdateResultsView(results)
         /\ currentView' = "results"
         /\ UNCHANGED download

\* A setResults that appends the new results to the ones held.
SetResultsAppending(results, rid) ==
    /\ qcResults' = [tag |-> results.tag, items |-> qcResults.items \o results.items]
    /\ resultId' = rid
    /\ Render(qcResults')
    /\ resultsShown' = UpdateResultsView(results)
    /\ currentView' = "results"
    /\ UNCHANGED download

\* A setResults that keeps the token it holds when the response carries none.
SetResultsKeepingToken(results, rid) ==
    /\ qcResults' = results
    /\ resultId' = IF rid = Undefined THEN resultId ELSE rid
    /\ Render(results)
    /\ resultsShown' = UpdateResultsView(results)
    /\ currentView' = "results"
    /\ UNCHANGED download

\* App.setResults(results, resultId): store, render, switch to the results view.
SetResults(results, rid) ==
    /\ qcResults' = results
    /\ resultId' = rid
    /\ Render(results)
    /\ resultsShown' = UpdateResultsView(results)
    /\ currentView' = "results"
    /\ UNCHANGED download

\* The earlier revision's lookup: the columns of the session added last,
\* whichever source is active.
FindSessionLast(id) ==
    IF Len(sessions) > 0
    THEN [found |-> TRUE, columns |-> sessions[Len(sessions)].columns]
    ELSE [found |-> FALSE, columns |-> <<>>]

\* ------------------------------------------------------------ QCRules: rules
FindSession(id) ==
    IF \E i \in DOMAIN sessions : sessions[i].session_id = id
    THEN LET i == CHOOSE i \in DOMAIN sessions :
                    /\ sessions[i].session_id = id
                    /\ \A j \in 1..(i - 1) : sessions[j].session_id # id
         IN  [found |-> TRUE, columns |-> sessions[i].columns]
    ELSE [found |-> FALSE, columns |-> <<>>]

\* QCRules.showRuleConfig(rule), reached by clicking a rendered rule item.
ShowRuleConfig(ruleId) ==
    /\ ruleId \in {availableRules[i].id : i \in DOMAIN availableRules}
    /\ IF ~TruthyId(activeSession)
       THEN /\ lastToast' = Toast("warning", "Please select a data source first", "")
            /\ UNCHANGED << currentRuleConfig, formColumns, formWidgets >>
       ELSE /\ currentRuleConfig' = ruleId
            /\ formColumns' = FindSession(activeSession).columns
            /\ formWidgets' = GenerateFormFields(RuleById(availableRules, ruleId).properties,
                                                 formColumns')
            /\ UNCHANGED lastToast
    /\ UNCHANGED << currentView, sessions, activeSession, availableRules, stateActiveRules,
                    activeRules, rulesPanel, overlay, ops, loads, refreshes, backend,
                    lastResp, resultVars, viewVars >>

\* QCRules.addRuleFromModal() with the form as the user left it; miss is the
\* index of the first required field the validation loop rejects, 0 if none.
AddRuleFromModal(form) ==
    /\ currentRuleConfig # Null
    /\ LET rule == RuleById(availableRules, currentRuleConfig)
           config == SerializeForm(rule, form)
           required == rule.required
           miss == IF \E i \in DOMAIN required : FieldMissing(config, required[i])
                   THEN CHOOSE i \in DOMAIN required :
                           /\ FieldMissing(config, required[i])
                           /\ \A j \in 1..(i - 1) : ~FieldMissing(config, required[j])
                   ELSE 0
       IN  IF miss # 0
           THEN /\ lastToast' = Toast("error", rule.required[miss], "is required")
                /\ UNCHANGED << activeRules, stateActiveRules, rulesPanel >>
           ELSE /\ Len(activeRules) < MaxRules
                /\ activeRules' = Append(activeRules, [rule_id |-> rule.id, rule_name |-> rule.name,
                                                      config |-> config])
                /\ stateActiveRules' = activeRules'
                /\ rulesPanel' = RenderActiveRules(activeRules')
                /\ UNCHANGED lastToast
    /\ UNCHANGED << currentView, sessions, activeSession, availableRules,
                    currentRuleConfig, formColumns, formWidgets, overlay, ops, loads,
                    refreshes, backend, lastResp, resultVars, viewVars >>

\* A removeRule that drops the last entry, whichever card was clicked.
RemoveRuleLast(index) ==
    /\ index \in 0..(Len(activeRules) - 1)
    /\ activeRules' = [i \in 1..(Len(activeRules) - 1) |-> activeRules[i]]
    /\ stateActiveRules' = activeRules'
    /\ rulesPanel' = RenderActiveRules(activeRules')
    /\ UNCHANGED << currentView, sessions, activeSession, availableRules,
                    currentRuleConfig, formColumns, formWidgets, overlay, lastToast, ops,
                    loads, refreshes, backend, lastResp, resultVars, viewVars >>

\* QCRules.removeRule(index), index being the 0-based position of a drawn card:
\* Array.prototype.splice(index, 1), then renderActiveRules.
RemoveRule(index) ==
    /\ index \in 0..(Len(activeRules) - 1)
    /\ activeRules' = [i \in 1..(Len(activeRules) - 1) |->
                         IF i <= index THEN activeRules[i] ELSE activeRules[i + 1]]
    /\ stateActiveRules' = activeRules'
    /\ rulesPanel' = RenderActiveRules(activeRules')
    /\ UNCHANGED << currentView, sessions, activeSession, availableRules,
                    currentRuleConfig, formColumns, formWidgets, overlay, lastToast, ops,
                    loads, refreshes, backend, lastResp, resultVars, viewVars >>

\* -------------------------------------------------- requests and responses
\* A settled fetch as the handler sees it.
\*   transport "rejected":   fetch() rejects (the request never completed)
\*   transport "unparsable": response.json() / response.blob() rejects
\*   transport "json":       a parsed body; ok is response.ok, success and error
\*                           are the envelope's fields, payload the rest of it
Resp(transport, ok, success, error, payload) ==
    [transport |-> transport, ok |-> ok, success |-> success, error |-> error,
     payload |-> payload]

NoPayload == [none |-> TRUE]
HasPayload(resp) == "none" \notin DOMAIN resp.payload

\* The responses every endpoint can give besides a 2xx: a network failure, an
\* unparsable body, a non-2xx with and without an error message.
FailedResps ==
    { Resp("rejected", FALSE, FALSE, Undefined, NoPayload),
      Resp("unparsable", FALSE, FALSE, Undefined, NoPayload),
      Resp("json", FALSE, FALSE, "BackendError", NoPayload),
      Resp("json", FALSE, FALSE, Undefined, NoPayload) }

\* A 2xx whose envelope says success: false and carries only the error.
RejectedResp == Resp("json", TRUE, FALSE, "BackendError", NoPayload)

\* The handler's path up to and including `if (!response.ok) throw`.
Throws(resp) == resp.transport # "json" \/ ~resp.ok

\* A catch block that always shows the handler's default text.
DefaultMessage(resp, fallback) == fallback

\* error.message in the catch block: the exception's own message, or
\* data.error || fallback for a non-2xx.
ErrorMessage(resp, fallback) ==
    IF resp.transport # "json" THEN "ExceptionMessage"
    ELSE IF TruthyId(resp.error) THEN resp.error
    ELSE fallback

\* An operation: its handler's position (pc), the request it sent and, while a
\* second await is pending, the first response (both dropped once the handler
\* has returned), and how its own request came back (outcome).
Op(kind, pc, req, resp, outcome) ==
    [kind |-> kind, pc |-> pc, req |-> req, resp |-> resp, outcome |-> outcome]

\* The part of a dispatching handler from App.showLoading to its first await.
Dispatch(kind, req) ==
    /\ Len(ops) < MaxOps
    /\ ops' = Append(ops, Op(kind, "awaiting", req,
                          Resp("none", FALSE, FALSE, Undefined, NoPayload), "none"))
    /\ overlay' = "visible"
    /\ UNCHANGED << lastResp, viewVars >>

Awaiting(i, kind) == i \in DOMAIN ops /\ ops[i].kind = kind /\ ops[i].pc = "awaiting"

\* The operations of a kind whose first request has not settled.
InFlight(kind) == {i \in DOMAIN ops : ops[i].kind = kind /\ ops[i].pc = "awaiting"}

\* The handler of operation i has run to its end (its finally block included).
SettleAs(i, outcome, resp) ==
    /\ ops' = [ops EXCEPT ![i] = Op(@.kind, "done", [none |-> TRUE],
                                   Resp("none", FALSE, FALSE, Undefined, NoPayload), outcome)]
    /\ overlay' = HideLoading(overlay)
    /\ lastResp' = resp

\* "ok": a 2xx whose envelope does not say success: false; "rejected": a 2xx
\* saying success: false; "failed": no 2xx body at all.
Settle(i, resp) ==
    SettleAs(i,
             IF resp.transport # "json" \/ ~resp.ok THEN "failed"
             ELSE IF ~resp.success THEN "rejected"
             ELSE "ok",
             resp)

\* ------------------------------------------------ Results: tables and exports
\* The buttons of card resultIdx can be clicked: the results view is up and the
\* card is drawn.
CardDrawn(resultIdx) ==
    /\ overlay = "hidden"
    /\ currentView = "results"
    /\ resultsShown
    /\ resultIdx + 1 \in DOMAIN rendered

\* A toggle whose collapse relabels the button and leaves every row drawn.
ToggleShowAllRelabel(resultIdx) ==
    /\ CardDrawn(resultIdx)
    /\ Len(rendered[resultIdx + 1].failed_rows) > InitialShow
    /\ IF resultIdx \notin DOMAIN resultData
       THEN UNCHANGED << resultData, tableBody >>
       ELSE /\ tableBody' = [tableBody EXCEPT ![resultIdx + 1] = resultData[resultIdx].rows]
            /\ resultData' = [resultData EXCEPT ![resultIdx].expanded = ~@]
    /\ UNCHANGED << currentView, qcResults, resultId, rendered, groupedAggData, download,
                    resultsShown, overlay, lastToast, ops, lastResp >>
    /\ UNCHANGED << ruleVars, sessionVars, loadVars, viewVars >>

\* An export that writes the rows the table is showing.
ExportSectionShown(resultIdx) ==
    /\ CardDrawn(resultIdx)
    /\ rendered[resultIdx + 1].failed_rows # <<>>
    /\ IF resultIdx \notin DOMAIN resultData \/ resultData[resultIdx].rows = <<>>
       THEN /\ lastToast' = Toast("warning", "No data to export", "")
            /\ UNCHANGED download
       ELSE /\ download' = [file |-> "qc_section", index |-> resultIdx + 1,
                            csv |-> CsvText(resultData[resultIdx].columns,
                                            tableBody[resultIdx + 1])]
            /\ lastToast' = Toast("success", "Exported rows to CSV", "")
    /\ UNCHANGED << currentView, qcResults, resultId, rendered, resultData, groupedAggData,
                    tableBody, resultsShown, overlay, ops, lastResp >>
    /\ UNCHANGED << ruleVars, sessionVars, loadVars, viewVars >>

\* A grouped export that takes the rows out of the store as it writes them.
ExportGroupedAggConsuming(resultIdx) ==
    /\ CardDrawn(resultIdx)
    /\ rendered[resultIdx + 1].grouped_table # <<>>
    /\ IF resultIdx \notin DOMAIN groupedAggData \/ groupedAggData[resultIdx] = <<>>
       THEN /\ lastToast' = Toast("warning", "No grouped data to export", "")
            /\ UNCHANGED << download, groupedAggData >>
       ELSE /\ download' = [file |-> "grouped_aggregation", index |-> 0,
                            csv |-> CsvText(groupedAggData[resultIdx][1].keys,
                                            groupedAggData[resultIdx])]
            /\ groupedAggData' = [groupedAggData EXCEPT ![resultIdx] = <<>>]
            /\ lastToast' = Toast("success", "Exported grouped rows to CSV", "")
    /\ UNCHANGED << currentView, qcResults, resultId, rendered, resultData,
                    tableBody, resultsShown, overlay, ops, lastResp >>
    /\ UNCHANGED << ruleVars, sessionVars, loadVars, viewVars >>

\* Results.toggleShowAll(resultIdx), from the toggle button renderDetails draws
\* on a table of more than InitialShow rows.
ToggleShowAll(resultIdx) ==
    /\ CardDrawn(resultIdx)
    /\ Len(rendered[resultIdx + 1].failed_rows) > InitialShow
    /\ IF resultIdx \notin DOMAIN resultData
       THEN UNCHANGED << resultData, tableBody >>
       ELSE LET data == resultData[resultIdx]
            IN  /\ tableBody' =
                      [tableBody EXCEPT ![resultIdx + 1] =
                          IF ~data.expanded THEN data.rows
                          ELSE [k \in 1..(IF Len(data.rows) < data.initialShow
                                          THEN Len(data.rows) ELSE data.initialShow) |->
                                   data.rows[k]]]
                /\ resultData' = [resultData EXCEPT ![resultIdx].expanded = ~data.expanded]
    /\ UNCHANGED << currentView, qcResults, resultId, rendered, groupedAggData, download,
                    resultsShown, overlay, lastToast, ops, lastResp >>
    /\ UNCHANGED << ruleVars, sessionVars, loadVars, viewVars >>

\* Results.exportSection(resultIdx), from the export button of a failed-rows
\* table.  The file name's date and the row count in the toast are left out.
ExportSection(resultIdx) ==
    /\ CardDrawn(resultIdx)
    /\ rendered[resultIdx + 1].failed_rows # <<>>
    /\ IF resultIdx \notin DOMAIN resultData \/ resultData[resultIdx].rows = <<>>
       THEN /\ lastToast' = Toast("warning", "No data to export", "")
            /\ UNCHANGED download
       ELSE /\ download' = [file |-> "qc_section", index |-> resultIdx + 1,
                            csv |-> CsvText(resultData[resultIdx].columns,
                                            resultData[resultIdx].rows)]
            /\ lastToast' = Toast("success", "Exported rows to CSV", "")
    /\ UNCHANGED << currentView, qcResults, resultId, rendered, resultData, groupedAggData,
                    tableBody, resultsShown, overlay, ops, lastResp >>
    /\ UNCHANGED << ruleVars, sessionVars, loadVars, viewVars >>

\* Results.exportGroupedAgg(resultIdx), from the export button of a grouped table.
ExportGroupedAgg(resultIdx) ==
    /\ CardDrawn(resultIdx)
    /\ rendered[resultIdx + 1].grouped_table # <<>>
    /\ IF resultIdx \notin DOMAIN groupedAggData \/ groupedAggData[resultIdx] = <<>>
       THEN /\ lastToast' = Toast("warning", "No grouped data to export", "")
            /\ UNCHANGED download
       ELSE /\ download' = [file |-> "grouped_aggregation", index |-> 0,
                            csv |-> CsvText(groupedAggData[resultIdx][1].keys,
                                            groupedAggData[resultIdx])]
            /\ lastToast' = Toast("success", "Exported grouped rows to CSV", "")
    /\ UNCHANGED << currentView, qcResults, resultId, rendered, resultData, groupedAggData,
                    tableBody, resultsShown, overlay, ops, lastResp >>
    /\ UNCHANGED << ruleVars, sessionVars, loadVars, viewVars >>

\* A result as the renderer reads it: failed_rows and details.grouped_table are
\* empty unless the backend sent rows.
Result(name, passed, message) ==
    [rule_name |-> name, passed |-> passed, message |-> message,
     failed_rows |-> <<>>, grouped_table |-> <<>>]

\* ------------------------------------------------------ QCRules.runQCChecks
RulesRequest(session, rules) ==
    [session_id |-> session,
     rules |-> [i \in DOMAIN rules |-> [rule_id |-> rules[i].rule_id, config |-> rules[i].config]]]

\* A runQCChecks without the active-source test.
RunQCChecksAnySession ==
    IF Len(activeRules) = 0
    THEN /\ lastToast' = Toast("warning", "Please add at least one rule", "")
         /\ UNCHANGED << currentView, ops, overlay, lastResp, viewVars >>
         /\ UNCHANGED << ruleVars, resultVars, sessionVars, loadVars >>
    ELSE /\ Dispatch("rules", RulesRequest(activeSession, activeRules))
         /\ UNCHANGED << currentView, lastToast >>
         /\ UNCHANGED << ruleVars, resultVars, sessionVars, loadVars >>

RunQCChecks ==
    IF Len(activeRules) = 0
    THEN /\ lastToast' = Toast("warning", "Please add at least one rule", "")
         /\ UNCHANGED << currentView, ops, overlay, lastResp, viewVars >>
         /\ UNCHANGED << ruleVars, resultVars, sessionVars, loadVars >>
    ELSE IF ~TruthyId(activeSession)
    THEN /\ lastToast' = Toast("warning", "Please select a data source", "")
         /\ UNCHANGED << currentView, ops, overlay, lastResp, viewVars >>
         /\ UNCHANGED << ruleVars, resultVars, sessionVars, loadVars >>
    ELSE /\ Dispatch("rules", RulesRequest(activeSession, activeRules))
         /\ UNCHANGED << currentView, lastToast >>
         /\ UNCHANGED << ruleVars, resultVars, sessionVars, loadVars >>

\* The bodies POST /api/qc/run returns with a 2xx: one result per rule sent.
RulesPayload(results, rid, allPassed) ==
    [results |-> results, result_id |-> rid, all_passed |-> allPassed]

RulesOkResps(i) ==
    { Resp("json", TRUE, TRUE, Undefined,
           RulesPayload(ListResults([k \in DOMAIN ops[i].req.rules |->
                                        Result(ops[i].req.rules[k].rule_id, p, "checked")]),
                        ResultIdOf(i), p)) : p \in BOOLEAN }

\* data.results, data.result_id and data.all_passed of a body without them.
RulesData(resp) ==
    IF HasPayload(resp) THEN resp.payload
    ELSE RulesPayload([tag |-> "undefined", items |-> <<>>], Undefined, FALSE)

RunQCChecksResponse(i, resp) ==
    /\ Awaiting(i, "rules")
    /\ IF Throws(resp)
       THEN /\ lastToast' = Toast("error", "QC check failed", ErrorMessage(resp, "QC check failed"))
            /\ UNCHANGED << currentView, resultVars >>
       ELSE /\ SetResults(RulesData(resp).results, RulesData(resp).result_id)
            /\ lastToast' = IF RulesData(resp).all_passed
                            THEN Toast("success", "All QC checks passed!", "")
                            ELSE Toast("warning", "checks failed", "")
    /\ Settle(i, resp)
    /\ UNCHANGED << ruleVars, sessionVars, loadVars, viewVars >>

\* ----------------------------------------------------- QCRules.runComparison
\* parseFloat(text) || fallback
ParseFloatOr(text, fallback) ==
    IF ParseFloat(text).nan \/ ParseFloat(text).n = 0 THEN fallback ELSE ParseFloat(text).n

\* The compare view as the user left it: the checked source boxes, the
\* selected key / value options, the analysis toggles, the tolerance and
\* threshold texts and the aggregation rows.
CompareForm(checked, key, value, dup, uniq, notMatched, tolerance, dateTolerance, fuzzy, aggRows) ==
    [checked |-> checked, keyColumns |-> key, valueColumns |-> value,
     showDuplicates |-> dup, showUnique |-> uniq, showNotMatched |-> notMatched,
     tolerance |-> tolerance, dateTolerance |-> dateTolerance, fuzzyThreshold |-> fuzzy,
     aggRows |-> aggRows]

NullConfig == [enabled |-> FALSE, aggregations |-> <<>>]

\* A getAggregationConfig that merges the rows naming the same column.
RECURSIVE MergeByColumn(_)
MergeByColumn(configs) ==
    IF configs = <<>> THEN <<>>
    ELSE LET rest == MergeByColumn(Tail(configs))
         IN  IF \E k \in DOMAIN rest : rest[k].column = Head(configs).column
             THEN rest ELSE << Head(configs) >> \o rest

GetAggregationConfigMerged(configs) ==
    IF Len(configs) > 0 THEN [enabled |-> TRUE, aggregations |-> MergeByColumn(configs)]
    ELSE NullConfig

\* QCRules.getAggregationConfig() over the rows App.getAggregationConfigs() returns.
GetAggregationConfig(configs) ==
    IF Len(configs) > 0 THEN [enabled |-> TRUE, aggregations |-> configs] ELSE NullConfig

\* The JSON body runComparison posts (the selects left at their first option).
ComparePayload(form) ==
    [session_ids |-> form.checked,
     key_columns |-> form.keyColumns,
     value_columns |-> form.valueColumns,
     join_type |-> "full",
     tolerance |-> [numeric |-> ParseFloatOr(form.tolerance, 0),
                    numeric_type |-> "absolute",
                    date |-> ParseFloatOr(form.dateTolerance, 0),
                    date_unit |-> "days"],
     options |-> [fuzzy_threshold |-> ParseFloatOr(form.fuzzyThreshold, 80)],
     analysis |-> [duplicates |-> form.showDuplicates,
                   unique |-> form.showUnique,
                   not_matched |-> form.showNotMatched],
     aggregation |-> GetAggregationConfig(form.aggRows)]

\* A runComparison without the key-column test.
RunComparisonAnyKeys(form) ==
    IF Len(form.checked) < 2
    THEN /\ lastToast' = Toast("warning", "Please select at least 2 sources to compare", "")
         /\ UNCHANGED << currentView, ops, overlay, lastResp, viewVars >>
         /\ UNCHANGED << ruleVars, resultVars, sessionVars, loadVars >>
    ELSE /\ Dispatch("compare", ComparePayload(form))
         /\ UNCHANGED << currentView, lastToast >>
         /\ UNCHANGED << ruleVars, resultVars, sessionVars, loadVars >>

RunComparison(form) ==
    IF Len(form.checked) < 2
    THEN /\ lastToast' = Toast("warning", "Please select at least 2 sources to compare", "")
         /\ UNCHANGED << currentView, ops, overlay, lastResp, viewVars >>
         /\ UNCHANGED << ruleVars, resultVars, sessionVars, loadVars >>
    ELSE IF Len(form.keyColumns) = 0
    THEN /\ lastToast' = Toast("warning", "Please select at least one key column for matching", "")
         /\ UNCHANGED << currentView, ops, overlay, lastResp, viewVars >>
         /\ UNCHANGED << ruleVars, resultVars, sessionVars, loadVars >>
    ELSE /\ Dispatch("compare", ComparePayload(form))
         /\ UNCHANGED << currentView, lastToast >>
         /\ UNCHANGED << ruleVars, resultVars, sessionVars, loadVars >>

\* One section of the compare response: absent, or present with its row count
\* and the rows the backend sent for it.
Section(present, count, rows) == [present |-> present, count |-> count, rows |-> rows]
Absent == Section(FALSE, 0, <<>>)

\* data.unique maps each source to its section; uniqSources lists its entries,
\* each a source name with the rows sent for it.
ComparePayloadOf(dup, uniqPresent, uniqSources, notMatched, agg, rid) ==
    [duplicates |-> dup, uniquePresent |-> uniqPresent, uniqueSources |-> uniqSources,
     not_matched |-> notMatched, aggregation |-> agg, result_id |-> rid]

CompareData(resp) ==
    IF HasPayload(resp) THEN resp.payload
    ELSE ComparePayloadOf(Absent, FALSE, <<>>, Absent, Absent, Undefined)

\* A runComparison that shows the value differences whatever the toggle says.
BuildComparisonResultsUnguarded(req, data) ==
    LET Shown(rows) == SubSeq(rows, 1, IF Len(rows) < 100 THEN Len(rows) ELSE 100)
        dups == IF data.duplicates.present /\ req.analysis.duplicates
                THEN << [Result("Duplicates", data.duplicates.count = 0, "duplicate rows")
                            EXCEPT !.failed_rows = Shown(data.duplicates.rows)] >>
                ELSE <<>>
        uniq == IF data.uniquePresent /\ req.analysis.unique
                THEN [k \in DOMAIN data.uniqueSources |->
                        [Result(data.uniqueSources[k].source, TRUE, "rows only in this source")
                            EXCEPT !.failed_rows = Shown(data.uniqueSources[k].rows)]]
                ELSE <<>>
        diff == IF data.not_matched.present
                THEN << [Result("Value Differences", data.not_matched.count = 0,
                                "rows with value differences")
                            EXCEPT !.failed_rows = Shown(data.not_matched.rows)] >>
                ELSE <<>>
        agg == IF data.aggregation.present
               THEN << [Result("Aggregation", data.aggregation.count = 0, "groups")
                           EXCEPT !.failed_rows = data.aggregation.rows] >>
               ELSE <<>>
        all == dups \o uniq \o diff \o agg
    IN  IF Len(all) = 0
        THEN << Result("Comparison Results", TRUE, "No analysis options selected") >>
        ELSE all

\* The results list runComparison builds from a 2xx body (lines 960-1025): a
\* section is shown when the response has it and its toggle was on when the
\* run was started; each carries the first 100 of its rows (slice(0, 100)),
\* the aggregation all of its variances.
BuildComparisonResults(req, data) ==
    LET Shown(rows) == SubSeq(rows, 1, IF Len(rows) < 100 THEN Len(rows) ELSE 100)
        dups == IF data.duplicates.present /\ req.analysis.duplicates
                THEN << [Result("Duplicates", data.duplicates.count = 0, "duplicate rows")
                            EXCEPT !.failed_rows = Shown(data.duplicates.rows)] >>
                ELSE <<>>
        uniq == IF data.uniquePresent /\ req.analysis.unique
                THEN [k \in DOMAIN data.uniqueSources |->
                        [Result(data.uniqueSources[k].source, TRUE, "rows only in this source")
                            EXCEPT !.failed_rows = Shown(data.uniqueSources[k].rows)]]
                ELSE <<>>
        diff == IF data.not_matched.present /\ req.analysis.not_matched
                THEN << [Result("Value Differences", data.not_matched.count = 0,
                                "rows with value differences")
                            EXCEPT !.failed_rows = Shown(data.not_matched.rows)] >>
                ELSE <<>>
        agg == IF data.aggregation.present
               THEN << [Result("Aggregation", data.aggregation.count = 0, "groups")
                           EXCEPT !.failed_rows = data.aggregation.rows] >>
               ELSE <<>>
        all == dups \o uniq \o diff \o agg
    IN  IF Len(all) = 0
        THEN << Result("Comparison Results", TRUE, "No analysis options selected") >>
        ELSE all

RunComparisonResponse(i, resp) ==
    /\ Awaiting(i, "compare")
    /\ IF Throws(resp)
       THEN /\ lastToast' = Toast("error", "Comparison failed", ErrorMessage(resp, "Comparison failed"))
            /\ UNCHANGED << currentView, resultVars >>
       ELSE /\ SetResults(ListResults(BuildComparisonResults(ops[i].req, CompareData(resp))),
                          CompareData(resp).result_id)
            /\ lastToast' = Toast("success", "Comparison complete", "")
    /\ Settle(i, resp)
    /\ UNCHANGED << ruleVars, sessionVars, loadVars, viewVars >>

\* ---------------------------------------------- QCRules.runFormulaCalculation
\* The JSON body runFormulaCalculation posts (operation and result name left
\* at their defaults); an empty matchBy select value reads as 'index'.
FormulaPayload(form) ==
    [source1_id |-> form.source1, source2_id |-> form.source2,
     column1 |-> form.column1, column2 |-> form.column2,
     operation |-> "-", result_name |-> "Calculated",
     match_by |-> IF form.matchBy = "" THEN "index" ELSE form.matchBy,
     key_columns |-> form.keyColumns]

\* A runFormulaCalculation without the key-column test of matchBy = key.
RunFormulaAnyKeys(form) ==
    IF form.source1 = "" \/ form.source2 = ""
    THEN /\ lastToast' = Toast("warning", "Please select both sources", "")
         /\ UNCHANGED << currentView, ops, overlay, lastResp, viewVars >>
         /\ UNCHANGED << ruleVars, resultVars, sessionVars, loadVars >>
    ELSE IF form.column1 = "" \/ form.column2 = ""
    THEN /\ lastToast' = Toast("warning", "Please select columns from both sources", "")
         /\ UNCHANGED << currentView, ops, overlay, lastResp, viewVars >>
         /\ UNCHANGED << ruleVars, resultVars, sessionVars, loadVars >>
    ELSE /\ Dispatch("formula", FormulaPayload(form))
         /\ UNCHANGED << currentView, lastToast >>
         /\ UNCHANGED << ruleVars, resultVars, sessionVars, loadVars >>

RunFormulaCalculation(form) ==
    IF form.source1 = "" \/ form.source2 = ""
    THEN /\ lastToast' = Toast("warning", "Please select both sources", "")
         /\ UNCHANGED << currentView, ops, overlay, lastResp, viewVars >>
         /\ UNCHANGED << ruleVars, resultVars, sessionVars, loadVars >>
    ELSE IF form.column1 = "" \/ form.column2 = ""
    THEN /\ lastToast' = Toast("warning", "Please select columns from both sources", "")
         /\ UNCHANGED << currentView, ops, overlay, lastResp, viewVars >>
         /\ UNCHANGED << ruleVars, resultVars, sessionVars, loadVars >>
    ELSE IF FormulaPayload(form).match_by = "key" /\ Len(form.keyColumns) = 0
    THEN /\ lastToast' = Toast("warning", "Please select key column(s) for matching", "")
         /\ UNCHANGED << currentView, ops, overlay, lastResp, viewVars >>
         /\ UNCHANGED << ruleVars, resultVars, sessionVars, loadVars >>
    ELSE /\ Dispatch("formula", FormulaPayload(form))
         /\ UNCHANGED << currentView, lastToast >>
         /\ UNCHANGED << ruleVars, resultVars, sessionVars, loadVars >>

\* A 2xx body of /api/qc/calculate: statistics present or not, and the token.
FormulaData(resp) ==
    IF HasPayload(resp) THEN resp.payload
    ELSE [hasStatistics |-> FALSE, result_id |-> Undefined]

\* Reading data.statistics.calculated_rows of a body without statistics throws
\* a TypeError inside the try block.
RunFormulaResponse(i, resp) ==
    /\ Awaiting(i, "formula")
    /\ IF Throws(resp) \/ ~FormulaData(resp).hasStatistics
       THEN /\ lastToast' = Toast("error", "Calculation failed",
                                  IF Throws(resp)
                                  THEN ErrorMessage(resp, "Calculation failed")
                                  ELSE "ExceptionMessage")
            /\ UNCHANGED << currentView, resultVars >>
       ELSE /\ SetResults(ListResults(<< Result("Formula", TRUE, "Calculated values") >>),
                          FormulaData(resp).result_id)
            /\ lastToast' = Toast("success", "Formula calculated", "")
    /\ Settle(i, resp)
    /\ UNCHANGED << ruleVars, sessionVars, loadVars, viewVars >>

\* ------------------------------------------------------------ App.exportResults
ExportResults(format) ==
    /\ Dispatch("export", [result_id |-> resultId, format |-> format])
    /\ UNCHANGED << currentView, lastToast >>
    /\ UNCHANGED << ruleVars, resultVars, sessionVars, loadVars >>

\* A 2xx of /api/export is a file, not an envelope.
ExportResultsResponse(i, resp) ==
    /\ Awaiting(i, "export")
    /\ lastToast' = IF Throws(resp)
                    THEN Toast("error", "Export failed",
                               IF resp.transport = "json" THEN "Export failed"
                               ELSE "ExceptionMessage")
                    ELSE Toast("success", "Export completed successfully", "")
    /\ Settle(i, resp)
    /\ UNCHANGED currentView
    /\ UNCHANGED << ruleVars, resultVars, sessionVars, loadVars, viewVars >>

\* ------------------------------------------------------- DataSource: sessions
\* A body of GET /api/data/sources: the envelope and the backend's list.
ListResps ==
    { Resp("rejected", FALSE, FALSE, Undefined, NoPayload),
      Resp("unparsable", FALSE, FALSE, Undefined, NoPayload),
      Resp("json", FALSE, FALSE, "BackendError", NoPayload),
      Resp("json", TRUE, TRUE, Undefined, [sources |-> backend]) }

\* data.success of a settled list request (false when the fetch or the
\* parse threw).
ListSucceeded(resp) == resp.transport = "json" /\ resp.success

\* A loadSessions that empties the list when its request fails.
SessionsClearedOnFailure(resp, old) ==
    IF ListSucceeded(resp) THEN resp.payload.sources ELSE <<>>

\* The assignment loadSessions makes once its request has settled: the list
\* on data.success, nothing otherwise (the catch block only logs).
SessionsAfterLoad(resp, old) ==
    IF ListSucceeded(resp) THEN resp.payload.sources ELSE old

\* DataSource.loadSessions() from its fetch on, whoever called it.
LoadSessions(resp) ==
    /\ sessions' = SessionsAfterLoad(resp, sessions)
    /\ listed' = IF ListSucceeded(resp) THEN resp.payload.sources ELSE listed
    /\ runCompareDisabled' = IF ListSucceeded(resp) THEN UpdateCompareView(sessions')
                             ELSE runCompareDisabled

\* The refresh button: DataSource.loadSessions() up to its fetch.
Refresh ==
    /\ refreshes < MaxRefresh
    /\ refreshes' = refreshes + 1
    /\ loads' = [loads EXCEPT !.sessions = @ + 1]
    /\ UNCHANGED << currentView, overlay, lastToast, ops, lastResp >>
    /\ UNCHANGED << ruleVars, resultVars, sessionVars, viewVars >>

\* DataSource.loadSessions() (from init or the refresh button) after its fetch.
LoadSessionsResponse(resp) ==
    /\ loads.sessions > 0
    /\ loads' = [loads EXCEPT !.sessions = @ - 1]
    /\ LoadSessions(resp)
    /\ lastResp' = resp
    /\ UNCHANGED << currentView, overlay, lastToast, ops, refreshes, activeSession, backend >>
    /\ UNCHANGED << ruleVars, resultVars, dialogVars >>

\* App.loadAvailableRules() after its fetch.
LoadAvailableRulesResponse(resp) ==
    /\ loads.rules > 0
    /\ loads' = [loads EXCEPT !.rules = @ - 1]
    /\ availableRules' = IF resp.transport = "json" /\ resp.success
                         THEN AvailableRules ELSE availableRules
    /\ lastResp' = resp
    /\ UNCHANGED << currentView, overlay, lastToast, ops, refreshes >>
    /\ UNCHANGED << stateActiveRules, activeRules, currentRuleConfig, formColumns,
                    formWidgets, rulesPanel >>
    /\ UNCHANGED << resultVars, sessionVars, viewVars >>

\* DataSource.selectForQC(sessionId), from the QC button of a listed source
\* (renderSourcesList draws the backend's list, never a locally pushed record).
SelectForQC(id) ==
    /\ \E k \in DOMAIN sessions :
          sessions[k].source_id = id /\ sessions[k].session_id # Undefined
    /\ activeSession' = id
    /\ SwitchView("qc")
    /\ lastToast' = Toast("success", "Source selected for QC checks", "")
    /\ UNCHANGED << sessions, backend, overlay, ops, qcResults, resultId, rendered,
                    resultData, groupedAggData, tableBody, download, lastResp >>
    /\ UNCHANGED << ruleVars, loadVars, dialogVars, listed >>

\* App.addSession(sessionData) for each record of a list, in order.
AddSessions(records) ==
    /\ sessions' = sessions \o records
    /\ activeSession' = records[Len(records)].session_id
    /\ runCompareDisabled' = UpdateCompareView(sessions')

\* ------------------------------------------------------ DataSource: data viewer
\* loadPageData() up to its fetch: the request reads viewerSession, viewerPage
\* and viewerPageSize as the caller has just left them.
LoadPageData ==
    /\ Len(previews) < MaxPreviews
    /\ previews' = Append(previews, [session |-> viewerSession',
                                      offset |-> viewerPage' * viewerPageSize',
                                      limit |-> viewerPageSize',
                                      pc |-> "awaiting", outcome |-> "none"])

\* viewData(sessionId, sourceName, totalRows), from a card's view button.
ViewData(sessionId, totalRows) ==
    /\ sessionId \in {listed[k].source_id : k \in DOMAIN listed}
    /\ viewerSession' = sessionId
    /\ viewerTotalRows' = totalRows
    /\ viewerPage' = 0
    /\ UNCHANGED viewerPageSize
    /\ LoadPageData
    /\ UNCHANGED << currentView, overlay, lastToast, ops, lastResp, listed, runCompareDisabled,
                    edits, renameSessionId, compareChecked, keyOptions, formulaView,
                    viewerBody, pageIndicator >>
    /\ UNCHANGED << ruleVars, resultVars, sessionVars, loadVars >>

\* The change handler of pageSizeSelect (setupDataViewer).
ChangePageSize(size) ==
    /\ viewerSession # Null
    /\ viewerPageSize' = size
    /\ viewerPage' = 0
    /\ UNCHANGED << viewerSession, viewerTotalRows >>
    /\ LoadPageData
    /\ UNCHANGED << currentView, overlay, lastToast, ops, lastResp, listed, runCompareDisabled,
                    edits, renameSessionId, compareChecked, keyOptions, formulaView,
                    viewerBody, pageIndicator >>
    /\ UNCHANGED << ruleVars, resultVars, sessionVars, loadVars >>

\* A next handler that does not look at the number of pages.
NextPageUnbounded ==
    /\ viewerSession # Null
    /\ viewerPage' = viewerPage + 1
    /\ UNCHANGED << viewerSession, viewerPageSize, viewerTotalRows >>
    /\ LoadPageData
    /\ UNCHANGED << currentView, overlay, lastToast, ops, lastResp, listed, runCompareDisabled,
                    edits, renameSessionId, compareChecked, keyOptions, formulaView,
                    viewerBody, pageIndicator >>
    /\ UNCHANGED << ruleVars, resultVars, sessionVars, loadVars >>

\* The click handler of prevPageBtn.
PrevPage ==
    /\ viewerSession # Null
    /\ IF viewerPage > 0
       THEN /\ viewerPage' = viewerPage - 1
            /\ UNCHANGED << viewerSession, viewerPageSize, viewerTotalRows >>
            /\ LoadPageData
            /\ UNCHANGED << currentView, overlay, lastToast, ops, lastResp, listed,
                            runCompareDisabled, edits, renameSessionId, compareChecked,
                            keyOptions, formulaView, viewerBody, pageIndicator >>
            /\ UNCHANGED << ruleVars, resultVars, sessionVars, loadVars >>
       ELSE UNCHANGED vars

\* The click handler of nextPageBtn: maxPage is Math.ceil(total / size) - 1.
NextPage ==
    /\ viewerSession # Null
    /\ IF viewerPage < (viewerTotalRows + viewerPageSize - 1) \div viewerPageSize - 1
       THEN /\ viewerPage' = viewerPage + 1
            /\ UNCHANGED << viewerSession, viewerPageSize, viewerTotalRows >>
            /\ LoadPageData
            /\ UNCHANGED << currentView, overlay, lastToast, ops, lastResp, listed,
                            runCompareDisabled, edits, renameSessionId, compareChecked,
                            keyOptions, formulaView, viewerBody, pageIndicator >>
            /\ UNCHANGED << ruleVars, resultVars, sessionVars, loadVars >>
       ELSE UNCHANGED vars

\* loadPageData() after its fetch: renderDataTable draws the rows the response
\* carries (those of the request's source, offset and limit), updatePagination
\* writes the page the viewer is on now.
LoadPageDataResponse(i, resp) ==
    /\ i \in DOMAIN previews
    /\ previews[i].pc = "awaiting"
    /\ lastResp' = resp
    /\ IF resp.transport = "json" /\ resp.success
       THEN /\ previews' = [previews EXCEPT ![i].pc = "done", ![i].outcome = "ok"]
            /\ viewerBody' = [session |-> previews[i].session,
                              offset |-> previews[i].offset,
                              limit |-> previews[i].limit]
            /\ pageIndicator' = viewerPage + 1
            /\ UNCHANGED lastToast
       ELSE /\ previews' = [previews EXCEPT ![i].pc = "done", ![i].outcome = "failed"]
            /\ lastToast' = Toast("error", "Failed to load data",
                                  IF resp.transport = "json" THEN resp.error
                                  ELSE "ExceptionMessage")
            /\ UNCHANGED << viewerBody, pageIndicator >>
    /\ UNCHANGED << viewerSession, viewerPage, viewerPageSize, viewerTotalRows >>
    /\ UNCHANGED << currentView, overlay, ops, listed, runCompareDisabled, edits,
                    renameSessionId, compareChecked, keyOptions, formulaView >>
    /\ UNCHANGED << ruleVars, resultVars, sessionVars, loadVars >>

\* ------------------------------------------- QCRules: formula calculator selects
\* The change handler of formulaSource1 (which = 1) or formulaSource2: the
\* column select of that side is redrawn, the key-column options are not.
ChangeFormulaSource(which, id) ==
    /\ id \in {""} \cup {sessions[k].session_id : k \in DOMAIN sessions}
    /\ formulaView' = IF which = 1 THEN [formulaView EXCEPT !.source1 = id]
                      ELSE [formulaView EXCEPT !.source2 = id]
    /\ UNCHANGED << currentView, overlay, lastToast, ops, lastResp, listed, runCompareDisabled,
                    edits, renameSessionId, compareChecked, keyOptions, viewerVars >>
    /\ UNCHANGED << ruleVars, resultVars, sessionVars, loadVars >>

\* The change handler of formulaMatchBy: 'key' redraws the key-column options
\* (updateFormulaKeyColumns: emptied, then the columns of source 1 that
\* source 2 has, when both are selected and found by session_id).
ChangeFormulaMatchBy(value) ==
    /\ LET Found(id) == {k \in DOMAIN sessions : sessions[k].session_id = id}
           Columns(id) == sessions[CHOOSE k \in Found(id) : \A m \in Found(id) : k <= m].columns
           source1 == formulaView.source1
           source2 == formulaView.source2
           options == IF source1 = "" \/ source2 = "" THEN <<>>
                      ELSE IF Found(source1) = {} \/ Found(source2) = {} THEN <<>>
                      ELSE FilterSeq(Columns(source1), Range(Columns(source2)))
       IN  formulaView' = [formulaView EXCEPT
                              !.matchBy = value,
                              !.keyOptions = IF value = "key" THEN options ELSE @]
    /\ UNCHANGED << currentView, overlay, lastToast, ops, lastResp, listed, runCompareDisabled,
                    edits, renameSessionId, compareChecked, keyOptions, viewerVars >>
    /\ UNCHANGED << ruleVars, resultVars, sessionVars, loadVars >>

\* ----------------------------------------------------- DataSource.uploadFiles
UploadFiles(nFiles) ==
    IF nFiles = 0
    THEN UNCHANGED vars
    ELSE /\ Dispatch("upload", [files |-> nFiles])
         /\ UNCHANGED << currentView, lastToast >>
         /\ UNCHANGED << ruleVars, resultVars, sessionVars, loadVars >>

\* data.sources of an upload of n files: which of them loaded.
UploadOkResps(i) ==
    { Resp("json", TRUE, TRUE, Undefined, [loaded |-> l]) :
        l \in [1..ops[i].req.files -> BOOLEAN] }

\* data.sources.filter(s => s.success), as the file numbers in order.  The
\* session record uploadFiles / runQuery builds from one has no session_id.
Successful(resp) ==
    FilterSeq([k \in DOMAIN resp.payload.loaded |-> k],
              {k \in DOMAIN resp.payload.loaded : resp.payload.loaded[k]})

\* The first await of uploadFiles has settled.
UploadFilesResponse(i, resp) ==
    /\ Awaiting(i, "upload")
    /\ IF Throws(resp) \/ ~HasPayload(resp) \/ Successful(resp) = <<>>
       THEN /\ lastToast' = Toast("error", "Upload failed",
                                  IF Throws(resp) THEN ErrorMessage(resp, "Upload failed")
                                  ELSE IF ~HasPayload(resp) THEN "ExceptionMessage"
                                  ELSE "All files failed to load")
            /\ Settle(i, resp)
            /\ UNCHANGED << sessionVars, runCompareDisabled >>
       ELSE /\ AddSessions([k \in DOMAIN Successful(resp) |->
                               Session(NewSourceId(i, Successful(resp)[k]), Undefined,
                                       NewSourceColumns)])
            /\ backend' = backend \o [k \in DOMAIN Successful(resp) |->
                                        Session(NewSourceId(i, Successful(resp)[k]),
                                                NewSourceId(i, Successful(resp)[k]),
                                                NewSourceColumns)]
            /\ ops' = [ops EXCEPT ![i] = Op(@.kind, "awaiting_list", @.req, resp, "ok")]
            /\ lastResp' = resp
            /\ UNCHANGED << overlay, lastToast >>
    /\ UNCHANGED << currentView, ruleVars, resultVars, loadVars, dialogVars, listed >>

\* `await this.loadSessions()` inside uploadFiles / runQuery has settled.
InnerLoadResponse(i, resp) ==
    /\ i \in DOMAIN ops
    /\ ops[i].pc = "awaiting_list"
    /\ LoadSessions(resp)
    /\ lastToast' = IF ops[i].kind = "query"
                    THEN Toast("success", "Query returned rows", "")
                    ELSE IF \E k \in DOMAIN ops[i].resp.payload.loaded :
                                ~ops[i].resp.payload.loaded[k]
                    THEN Toast("warning", "Loaded file(s) successfully", "some failed")
                    ELSE Toast("success", "Loaded file(s) successfully", "")
    /\ SettleAs(i, ops[i].outcome, resp)
    /\ UNCHANGED << currentView, activeSession, backend >>
    /\ UNCHANGED << ruleVars, resultVars, loadVars, dialogVars >>

\* -------------------------------------------------------- DataSource.runQuery
RunQuery(source, query) ==
    IF query = ""
    THEN /\ lastToast' = Toast("warning", "Please enter a query", "")
         /\ UNCHANGED << currentView, ops, overlay, lastResp, viewVars >>
         /\ UNCHANGED << ruleVars, resultVars, sessionVars, loadVars >>
    ELSE /\ Dispatch("query", [source |-> source])
         /\ UNCHANGED << currentView, lastToast >>
         /\ UNCHANGED << ruleVars, resultVars, sessionVars, loadVars >>

QueryOkResp == Resp("json", TRUE, TRUE, Undefined, [row_count |-> 1])

\* The first await of runQuery has settled; data.columns.length of a body
\* without columns throws before addSession is called.
RunQueryResponse(i, resp) ==
    /\ Awaiting(i, "query")
    /\ IF Throws(resp) \/ ~HasPayload(resp)
       THEN /\ lastToast' = Toast("error", "Query failed",
                                  IF Throws(resp) THEN ErrorMessage(resp, "Query failed")
                                  ELSE "ExceptionMessage")
            /\ Settle(i, resp)
            /\ UNCHANGED << sessionVars, runCompareDisabled >>
       ELSE /\ AddSessions(<< Session(NewSourceId(i, 1), Undefined, NewSourceColumns) >>)
            /\ backend' = Append(backend, Session(NewSourceId(i, 1), NewSourceId(i, 1),
                                                  NewSourceColumns))
            /\ ops' = [ops EXCEPT ![i] = Op(@.kind, "awaiting_list", @.req, resp, "ok")]
            /\ lastResp' = resp
            /\ UNCHANGED << overlay, lastToast >>
    /\ UNCHANGED << currentView, ruleVars, resultVars, loadVars, dialogVars, listed >>

\* --------------------------------------------------- DataSource.testConnection
TestConnection(source) ==
    /\ Dispatch("test", [source |-> source])
    /\ UNCHANGED << currentView, lastToast >>
    /\ UNCHANGED << ruleVars, resultVars, sessionVars, loadVars >>

TestResps ==
    { Resp("rejected", FALSE, FALSE, Undefined, NoPayload),
      Resp("unparsable", FALSE, FALSE, Undefined, NoPayload),
      Resp("json", FALSE, FALSE, "BackendError", NoPayload),
      Resp("json", TRUE, TRUE, Undefined, NoPayload) }

TestConnectionResponse(i, resp) ==
    /\ Awaiting(i, "test")
    /\ lastToast' = IF resp.transport # "json"
                    THEN Toast("error", "Connection test failed", "ExceptionMessage")
                    ELSE IF resp.success THEN Toast("success", "Connection successful!", "")
                    ELSE Toast("error", "Connection failed", "data.message")
    /\ Settle(i, resp)
    /\ UNCHANGED << currentView, ruleVars, resultVars, sessionVars, loadVars, viewVars >>

\* ------------------------------------- DataSource.deleteSession, renameSource
\* A deleteSession / renameSource call: the source it names, the name typed
\* (rename) and the handler's position.
Edit(kind, id, name, pc) == [kind |-> kind, id |-> id, name |-> name, pc |-> pc]

\* The sources renderSourcesList has drawn a card for.
Cards == {listed[k].source_id : k \in DOMAIN listed}

editFrame ==
    << currentView, overlay, ops, activeSession, compareChecked, keyOptions,
       ruleVars, resultVars, loadVars, viewerVars, formulaView >>

\* What DELETE /api/data/sources/{id} and PUT .../rename can answer.
EditResps ==
    { Resp("rejected", FALSE, FALSE, Undefined, NoPayload),
      Resp("unparsable", FALSE, FALSE, Undefined, NoPayload),
      Resp("json", FALSE, FALSE, "BackendError", NoPayload),
      Resp("json", TRUE, TRUE, Undefined, NoPayload) }

RemoveSource(list, id) ==
    FilterSeq(list, {list[k] : k \in {k \in DOMAIN list : list[k].source_id # id}})

\* A deleteSession that drops the source from the local list before it asks
\* the backend.
DeleteSessionOptimistic(sourceId, confirmed) ==
    /\ sourceId \in Cards
    /\ IF ~confirmed
       THEN UNCHANGED vars
       ELSE /\ Len(edits) < MaxEdits
            /\ edits' = Append(edits, Edit("delete", sourceId, "", "awaiting"))
            /\ sessions' = RemoveSource(sessions, sourceId)
            /\ UNCHANGED << backend, listed, runCompareDisabled, lastToast,
                            lastResp, renameSessionId, editFrame >>

\* deleteSession(sourceId) up to its fetch; confirmed is the answer to confirm().
DeleteSession(sourceId, confirmed) ==
    /\ sourceId \in Cards
    /\ IF ~confirmed
       THEN UNCHANGED vars
       ELSE /\ Len(edits) < MaxEdits
            /\ edits' = Append(edits, Edit("delete", sourceId, "", "awaiting"))
            /\ UNCHANGED << sessions, backend, listed, runCompareDisabled, lastToast,
                            lastResp, renameSessionId, editFrame >>

\* The DELETE has settled: only response.ok is read, the body is not parsed.
DeleteSessionResponse(e, resp) ==
    /\ e \in DOMAIN edits
    /\ edits[e].kind = "delete"
    /\ edits[e].pc = "awaiting"
    /\ lastResp' = resp
    /\ IF resp.transport # "rejected" /\ resp.ok
       THEN /\ backend' = RemoveSource(backend, edits[e].id)
            /\ edits' = [edits EXCEPT ![e].pc = "awaiting_list"]
            /\ UNCHANGED lastToast
       ELSE /\ lastToast' = Toast("error", "Failed to delete",
                                  IF resp.transport = "rejected" THEN "ExceptionMessage"
                                  ELSE "Delete failed")
            /\ edits' = [edits EXCEPT ![e].pc = "done"]
            /\ UNCHANGED backend
    /\ UNCHANGED << sessions, listed, runCompareDisabled, renameSessionId, editFrame >>

\* showRenameModal(sessionId, currentName), from a card's rename button.
ShowRenameModal(sessionId) ==
    /\ sessionId \in Cards
    /\ renameSessionId' = sessionId
    /\ UNCHANGED << sessions, backend, listed, runCompareDisabled, lastToast, lastResp,
                    edits, editFrame >>

\* renameSource() up to its fetch; newName is the trimmed text of the input.
RenameSource(newName) ==
    IF newName = ""
    THEN /\ lastToast' = Toast("warning", "Please enter a name", "")
         /\ UNCHANGED << sessions, backend, listed, runCompareDisabled, lastResp,
                         edits, renameSessionId, editFrame >>
    ELSE IF ~TruthyId(renameSessionId)
    THEN UNCHANGED vars
    ELSE /\ Len(edits) < MaxEdits
         /\ edits' = Append(edits, Edit("rename", renameSessionId, newName, "awaiting"))
         /\ UNCHANGED << sessions, backend, listed, runCompareDisabled, lastToast,
                         lastResp, renameSessionId, editFrame >>

\* The PUT has settled.
RenameSourceResponse(e, resp) ==
    /\ e \in DOMAIN edits
    /\ edits[e].kind = "rename"
    /\ edits[e].pc = "awaiting"
    /\ lastResp' = resp
    /\ IF Throws(resp)
       THEN /\ lastToast' = Toast("error", "Rename failed", ErrorMessage(resp, "Rename failed"))
            /\ edits' = [edits EXCEPT ![e].pc = "done"]
            /\ UNCHANGED backend
       ELSE /\ backend' = [k \in DOMAIN backend |->
                              IF backend[k].source_id = edits[e].id
                              THEN [backend[k] EXCEPT !.source_name = edits[e].name]
                              ELSE backend[k]]
            /\ edits' = [edits EXCEPT ![e].pc = "awaiting_list"]
            /\ UNCHANGED lastToast
    /\ UNCHANGED << sessions, listed, runCompareDisabled, renameSessionId, editFrame >>

\* `await this.loadSessions()` inside deleteSession / renameSource has settled.
EditLoadResponse(e, resp) ==
    /\ e \in DOMAIN edits
    /\ edits[e].pc = "awaiting_list"
    /\ LoadSessions(resp)
    /\ lastResp' = resp
    /\ lastToast' = IF edits[e].kind = "delete" THEN Toast("success", "Data source deleted", "")
                    ELSE Toast("success", "Source renamed to", edits[e].name)
    /\ edits' = [edits EXCEPT ![e].pc = "done"]
    /\ UNCHANGED << backend, renameSessionId, editFrame >>

\* ------------------------------------------------------------- user inputs
\* The compare view draws one checkbox per listed source and offers as key
\* columns the columns common to the checked sources.
SourceIds == [k \in DOMAIN sessions |-> sessions[k].source_id]

ColumnsOfSource(id) ==
    LET k == CHOOSE k \in DOMAIN sessions : sessions[k].source_id = id
    IN  sessions[k].columns

\* An intersection taken over the first two checked sources only.
CommonColumnsOfTwo(checked) ==
    IF checked = <<>> THEN <<>>
    ELSE FilterSeq(ColumnsOfSource(checked[1]),
                   {c \in Range(ColumnsOfSource(checked[1])) :
                       \A k \in DOMAIN checked :
                          k <= 2 => c \in Range(ColumnsOfSource(checked[k]))})

CommonColumns(checked) ==
    IF checked = <<>> THEN <<>>
    ELSE FilterSeq(ColumnsOfSource(checked[1]),
                   {c \in Range(ColumnsOfSource(checked[1])) :
                       \A k \in DOMAIN checked : c \in Range(ColumnsOfSource(checked[k]))})

\* ----------------------------------------------------- the compare view
\* The checked boxes that still have a listed source behind them.
CheckedListed(checked) == FilterSeq(checked, Range(SourceIds))

\* A click on the checkbox of a source: it is checked or unchecked, the key /
\* value options are recomputed over the checked sources, and the run button
\* is enabled exactly when at least 2 are checked.
ToggleCompareSource(id) ==
    /\ id \in Range(SourceIds)
    /\ compareChecked' = IF id \in Range(compareChecked)
                         THEN FilterSeq(compareChecked, Range(compareChecked) \ {id})
                         ELSE Append(compareChecked, id)
    /\ keyOptions' = CommonColumns(CheckedListed(compareChecked'))
    /\ runCompareDisabled' = (Len(CheckedListed(compareChecked')) < 2)
    /\ UNCHANGED << currentView, overlay, lastToast, ops, lastResp, edits, renameSessionId,
                    listed, viewerVars, formulaView, ruleVars, resultVars, sessionVars,
                    loadVars >>

\* The aggregation rows the user can have configured: none, one, two on the
\* same column with different functions, two identical.
AggRow(column, function) == [column |-> column, function |-> function]

\* The compare view as runComparison reads it when the run button is clicked:
\* the boxes checked, none or all of the key options selected, and the
\* tolerance, date tolerance and fuzzy threshold inputs left empty or, in one
\* form each, negative, unparsable and above 100, and all three at 0.
CheckedForms ==
    { CompareForm(CheckedListed(compareChecked), k, <<>>, TRUE, TRUE, TRUE, "", "", "", a) :
        k \in {<<>>, keyOptions},
        a \in { <<>>,
                << AggRow("b", "sum") >>,
                << AggRow("b", "sum"), AggRow("b", "avg") >>,
                << AggRow("b", "sum"), AggRow("b", "sum") >> } }
      \cup { CompareForm(CheckedListed(compareChecked), keyOptions, <<>>, TRUE, TRUE, TRUE,
                         "-3", "abc", "150", <<>>),
              CompareForm(CheckedListed(compareChecked), keyOptions, <<>>, TRUE, TRUE, TRUE,
                         "0", "0", "0", <<>>) }

\* The states the compare view can be left in, over the given texts.  With
\* fewer than 2 boxes checked runComparison returns before it reads anything
\* else, so the rest of the form is left empty there.
CompareForms(toggles, texts, aggs) ==
    UNION { { CompareForm(c, k, <<>>, t[1], t[2], t[3], x, "", "", a) :
                k \in (IF Len(c) < 2 THEN {<<>>} ELSE SubSeqs(CommonColumns(c))),
                t \in (IF Len(c) < 2 THEN {<<FALSE, FALSE, FALSE>>} ELSE toggles),
                x \in texts, a \in aggs } :
            c \in SubSeqs(SourceIds) }

\* Every state the formula calculator can be left in.
FormulaForms(sources1, sources2, columns1, matchBys, keys) ==
    { [source1 |-> s1, source2 |-> s2, column1 |-> c1, column2 |-> "b",
       matchBy |-> m, keyColumns |-> k] :
        s1 \in sources1, s2 \in sources2, c1 \in columns1, m \in matchBys, k \in keys }

\* The 2xx bodies /api/qc/compare returns for the request of operation i.
CompareOkResps(i) ==
    { Resp("json", TRUE, TRUE, Undefined, p) :
        p \in { ComparePayloadOf(Section(TRUE, 1, <<>>), TRUE,
                                 << [source |-> "s1", rows |-> <<>>] >>,
                                 Section(TRUE, 0, <<>>), Absent,
                                 ResultIdOf(i)),
                ComparePayloadOf(Absent, FALSE, <<>>, Absent, Section(TRUE, 0, <<>>),
                                 ResultIdOf(i)),
                ComparePayloadOf(Absent, FALSE, <<>>, Absent, Absent, ResultIdOf(i)) } }

FormulaOkResps(i) ==
    { Resp("json", TRUE, TRUE, Undefined, [hasStatistics |-> TRUE, result_id |-> ResultIdOf(i)]) }

\* What a run endpoint can answer to the request of operation i.
RunResps(okResps) == FailedResps \cup {RejectedResp} \cup okResps

\* ------------------------------------------------------------ specifications
\* The rule-set manager.
\* The forms submitted to the open modal: every one it can hold, or the few
\* that leave every control at its first or its empty choice.
SubmittedForms(every) ==
    LET rule == RuleById(availableRules, currentRuleConfig)
    IN  IF currentRuleConfig = Null THEN {}
        ELSE IF every THEN AllForms(rule, formColumns)
        ELSE { f \in AllForms(rule, formColumns) :
                 \A k \in PropKeys(rule) :
                    /\ f[k].checked = FALSE
                    /\ f[k].value \in {"", "7", "strict"}
                                       \cup (IF formColumns = <<>> THEN {} ELSE {formColumns[1]})
                    /\ f[k].selected \in {<<>>, formColumns} }

\* The three runs of the execution gateway.
RunStep(compareForms, formulaForms) ==
    \/ RunQCChecks
    \/ \E f \in compareForms : RunComparison(f)
    \/ \E f \in formulaForms : RunFormulaCalculation(f)
    \/ \E i \in InFlight("rules") : \E resp \in RunResps(RulesOkResps(i)) :
          RunQCChecksResponse(i, resp)
    \/ \E i \in InFlight("compare") : \E resp \in RunResps(CompareOkResps(i)) :
          RunComparisonResponse(i, resp)
    \/ \E i \in InFlight("formula") : \E resp \in RunResps(FormulaOkResps(i)) :
          RunFormulaResponse(i, resp)

\* Everything the client does, from page load.
Next ==
    \/ \E v \in {"data", "qc", "compare", "results"} : Navigate(v)
    \/ \E resp \in { Resp("rejected", FALSE, FALSE, Undefined, NoPayload),
                     Resp("json", FALSE, FALSE, "BackendError", NoPayload),
                     Resp("json", TRUE, TRUE, Undefined, NoPayload) } :
          LoadAvailableRulesResponse(resp)
    \/ \E id \in RuleIds : ShowRuleConfig(id)
    \/ \E f \in SubmittedForms(FALSE) : AddRuleFromModal(f)
    \/ \E index \in 0..MaxRules : RemoveRule(index)
    \/ \E resp \in ListResps : LoadSessionsResponse(resp)
    \/ Refresh
    \/ \E id \in Range(SourceIds) : SelectForQC(id)
    \/ RunStep(CompareForms({<<TRUE, TRUE, TRUE>>, <<FALSE, FALSE, FALSE>>}, {""}, {<<>>}),
               FormulaForms({"", "s1"}, {"", "s2"}, {"", "b"}, {"", "key"}, {<<>>, <<"b">>}))
    \/ \E format \in {"csv", "excel"} : ExportResults(format)
    \/ \E i \in InFlight("export") : \E resp \in FailedResps \cup {Resp("json", TRUE, TRUE, Undefined, NoPayload)} :
          ExportResultsResponse(i, resp)
    \/ \E n \in 0..2 : UploadFiles(n)
    \/ \E i \in InFlight("upload") : \E resp \in FailedResps \cup {RejectedResp} \cup UploadOkResps(i) :
          UploadFilesResponse(i, resp)
    \/ \E query \in {"", "select"} : RunQuery("postgres", query)
    \/ \E i \in InFlight("query") : \E resp \in FailedResps \cup {RejectedResp, QueryOkResp} :
          RunQueryResponse(i, resp)
    \/ \E i \in DOMAIN ops : \E resp \in ListResps : InnerLoadResponse(i, resp)
    \/ \E source \in {"postgres", "athena"} : TestConnection(source)
    \/ \E i \in InFlight("test") : \E resp \in TestResps : TestConnectionResponse(i, resp)
    \/ \E id \in Cards : \E confirmed \in BOOLEAN : DeleteSession(id, confirmed)
    \/ \E e \in DOMAIN edits : \E resp \in EditResps : DeleteSessionResponse(e, resp)
    \/ \E id \in Cards : ShowRenameModal(id)
    \/ \E newName \in {"", "renamed"} : RenameSource(newName)
    \/ \E e \in DOMAIN edits : \E resp \in EditResps : RenameSourceResponse(e, resp)
    \/ \E e \in DOMAIN edits : \E resp \in ListResps : EditLoadResponse(e, resp)
    \/ \E id \in Range(SourceIds) : ToggleCompareSource(id)
    \/ \E resultIdx \in 0..(MaxRules - 1) :
          \/ ToggleShowAll(resultIdx)
          \/ ExportSection(resultIdx)
          \/ ExportGroupedAgg(resultIdx)
    \/ \E id \in Cards : \E totalRows \in {0, 50, 70} : ViewData(id, totalRows)
    \/ \E size \in {50, 100} : ChangePageSize(size)
    \/ PrevPage
    \/ NextPage
    \/ \E i \in DOMAIN previews :
          \E resp \in FailedResps \cup {RejectedResp, Resp("json", TRUE, TRUE, Undefined, NoPayload)} :
             LoadPageDataResponse(i, resp)
    \/ \E which \in 1..2 : \E id \in {""} \cup Range(SourceIds) : ChangeFormulaSource(which, id)
    \/ \E value \in {"index", "key"} : ChangeFormulaMatchBy(value)

Spec == Init /\ [][Next]_vars

\* The rule modal, open on either rule over either source, from the state
\* the page reaches by a selectForQC and a click on a rule item.
ModalInit ==
    /\ currentView = "qc"
    /\ sessions = BackendInitial
    /\ backend = BackendInitial
    /\ availableRules = AvailableRules
    /\ activeSession \in {"s1", "s2"}
    /\ activeRules = <<>>
    /\ stateActiveRules = <<>>
    /\ currentRuleConfig \in RuleIds
    /\ formColumns = FindSession(activeSession).columns
    /\ formWidgets = GenerateFormFields(RuleById(availableRules, currentRuleConfig).properties,
                                        formColumns)
    /\ rulesPanel = RenderActiveRules(activeRules)
    /\ qcResults = NullResults
    /\ resultId = Null
    /\ rendered = <<>>
    /\ resultData = <<>>
    /\ groupedAggData = <<>>
    /\ tableBody = <<>>
    /\ download = NoDownload
    /\ resultsShown = FALSE
    /\ overlay = "hidden"
    /\ lastToast = Toast("success", "Source selected for QC checks", "")
    /\ ops = <<>>
    /\ loads = [sessions |-> 0, rules |-> 0]
    /\ refreshes = 0
    /\ lastResp = Resp("json", TRUE, TRUE, Undefined, [sources |-> BackendInitial])
    /\ edits = <<>>
    /\ renameSessionId = Undefined
    /\ viewerSession = Null
    /\ viewerPage = 0
    /\ viewerPageSize = 50
    /\ viewerTotalRows = 0
    /\ previews = <<>>
    /\ viewerBody = [session |-> Null, offset |-> 0, limit |-> 0]
    /\ pageIndicator = 0
    /\ formulaView = [source1 |-> "", source2 |-> "", matchBy |-> "", keyOptions |-> <<>>]
    /\ compareChecked = <<>>
    /\ keyOptions = <<>>
    /\ listed = BackendInitial
    /\ runCompareDisabled = FALSE

\* Submitting every form the modal can hold, reopening it, removing rules.
ModalNext ==
    \/ \E id \in RuleIds : ShowRuleConfig(id)
    \/ \E f \in SubmittedForms(TRUE) : AddRuleFromModal(f)
    \/ \E index \in 0..MaxRules : RemoveRule(index)

ModalSpec == ModalInit /\ [][ModalNext]_vars

\* The page once both initial fetches have answered and the user has selected
\* source s1 and has, or has not, configured a rule on it (range_check on
\* column a, min 7).
RunInit ==
    /\ currentView = "qc"
    /\ sessions = BackendInitial
    /\ backend = BackendInitial
    /\ availableRules = AvailableRules
    /\ activeSession = "s1"
    /\ activeRules \in
          { <<>>,
            << [rule_id |-> "range_check",
                rule_name |-> RuleById(availableRules, "range_check").name,
                config |-> [column |-> StrV("a"), min_value |-> NumV(7),
                            inclusive |-> BoolV(FALSE)]] >> }
    /\ stateActiveRules = activeRules
    /\ currentRuleConfig = (IF activeRules = <<>> THEN Null ELSE "range_check")
    /\ formColumns = (IF activeRules = <<>> THEN <<>> ELSE << "a", "b" >>)
    /\ formWidgets = (IF activeRules = <<>> THEN <<>>
                      ELSE GenerateFormFields(RuleById(availableRules, "range_check").properties,
                                              formColumns))
    /\ rulesPanel = RenderActiveRules(activeRules)
    /\ qcResults = NullResults
    /\ resultId = Null
    /\ rendered = <<>>
    /\ resultData = <<>>
    /\ groupedAggData = <<>>
    /\ tableBody = <<>>
    /\ download = NoDownload
    /\ resultsShown = FALSE
    /\ overlay = "hidden"
    /\ lastToast = Toast("success", "Source selected for QC checks", "")
    /\ ops = <<>>
    /\ loads = [sessions |-> 0, rules |-> 0]
    /\ refreshes = 0
    /\ lastResp = Resp("json", TRUE, TRUE, Undefined, [sources |-> BackendInitial])
    /\ edits = <<>>
    /\ renameSessionId = Undefined
    /\ viewerSession = Null
    /\ viewerPage = 0
    /\ viewerPageSize = 50
    /\ viewerTotalRows = 0
    /\ previews = <<>>
    /\ viewerBody = [session |-> Null, offset |-> 0, limit |-> 0]
    /\ pageIndicator = 0
    /\ formulaView = [source1 |-> "", source2 |-> "", matchBy |-> "", keyOptions |-> <<>>]
    /\ compareChecked = <<>>
    /\ keyOptions = <<>>
    /\ listed = BackendInitial
    /\ runCompareDisabled = FALSE

\* The execution gateway: the three runs, their responses in any order, and
\* navigation in between.
RunCompareForms == CompareForms({<<TRUE, TRUE, TRUE>>, <<FALSE, FALSE, FALSE>>}, {""}, {<<>>})
\* Every way to fill the calculator's match-by and key selects, and each of
\* the earlier tests failing once.
RunFormulaForms ==
    FormulaForms({"s1"}, {"s2"}, {"b"}, {"", "key"}, {<<>>, <<"b">>})
        \cup FormulaForms({""}, {"s2"}, {"b"}, {"key"}, {<<>>})
        \cup FormulaForms({"s1"}, {"s2"}, {""}, {"key"}, {<<>>})

RunNext ==
    \/ \E v \in {"compare"} : Navigate(v)
    \/ RunStep(RunCompareForms, RunFormulaForms)

RunSpec == RunInit /\ [][RunNext]_vars

\* The rule run and what changes its preconditions: rules removed, a file
\* uploaded (which resets the active source), a source selected again.
RuleRunNext ==
    \/ RunQCChecks
    \/ \E i \in InFlight("rules") : \E resp \in RunResps(RulesOkResps(i)) :
          RunQCChecksResponse(i, resp)
    \/ \E index \in 0..MaxRules : RemoveRule(index)
    \/ \E n \in 0..1 : UploadFiles(n)
    \/ \E i \in InFlight("upload") :
          \E resp \in FailedResps \cup {RejectedResp} \cup UploadOkResps(i) :
             UploadFilesResponse(i, resp)
    \/ \E i \in DOMAIN ops : \E resp \in ListResps : InnerLoadResponse(i, resp)
    \/ \E id \in Range(SourceIds) : SelectForQC(id)

RuleRunSpec == RunInit /\ [][RuleRunNext]_vars

\* The rule form opened on whatever source is active, as uploads add sources
\* and the user selects among the listed ones.
FormNext ==
    \/ \E id \in RuleIds : ShowRuleConfig(id)
    \/ UploadFiles(1)
    \/ \E i \in InFlight("upload") : \E resp \in {RejectedResp} \cup UploadOkResps(i) :
          UploadFilesResponse(i, resp)
    \/ \E i \in DOMAIN ops : \E resp \in ListResps : InnerLoadResponse(i, resp)
    \/ \E id \in Range(SourceIds) : SelectForQC(id)

FormSpec == RunInit /\ [][FormNext]_vars

\* How a request can settle: the network fails, the backend answers a non-2xx
\* with its error, answers a 2xx saying success: false, or succeeds.
Settled(okResps) ==
    { Resp("rejected", FALSE, FALSE, Undefined, NoPayload),
      Resp("json", FALSE, FALSE, "BackendError", NoPayload),
      RejectedResp } \cup okResps

\* A response handler runs: some awaited request has settled.
Responds ==
    \/ \E i \in InFlight("rules") :
          \E resp \in Settled({r \in RulesOkResps(i) : r.payload.all_passed}) :
             RunQCChecksResponse(i, resp)
    \/ \E i \in InFlight("compare") :
          \E resp \in Settled({r \in CompareOkResps(i) : r.payload.duplicates.present}) :
             RunComparisonResponse(i, resp)
    \/ \E i \in InFlight("formula") : \E resp \in Settled(FormulaOkResps(i)) :
          RunFormulaResponse(i, resp)
    \/ \E i \in InFlight("export") : \E resp \in Settled({Resp("json", TRUE, TRUE, Undefined, NoPayload)}) \ {RejectedResp} :
          ExportResultsResponse(i, resp)
    \/ \E i \in InFlight("upload") : \E resp \in Settled(UploadOkResps(i)) :
          UploadFilesResponse(i, resp)
    \/ \E i \in InFlight("query") : \E resp \in Settled({QueryOkResp}) :
          RunQueryResponse(i, resp)
    \/ \E i \in DOMAIN ops : \E resp \in ListResps : InnerLoadResponse(i, resp)
    \/ \E i \in InFlight("test") : \E resp \in TestResps : TestConnectionResponse(i, resp)

\* Every operation that shows the loading overlay, started (with a form that
\* passes its validation) and answered in any order.
OverlayNext ==
    \/ RunQCChecks
    \/ \E f \in CompareForms({<<TRUE, TRUE, TRUE>>}, {""}, {<<>>}) : RunComparison(f)
    \/ \E f \in FormulaForms({"s1"}, {"s2"}, {"b"}, {""}, {<<>>}) : RunFormulaCalculation(f)
    \/ ExportResults("csv")
    \/ \E n \in 0..1 : UploadFiles(n)
    \/ \E query \in {"", "select"} : RunQuery("postgres", query)
    \/ TestConnection("postgres")
    \/ Responds

\* Every request settles: fetch() resolves or rejects in the end.
FairOverlaySpec == RunInit /\ [][OverlayNext]_vars /\ WF_vars(Responds)

\* The loading overlay covers the page: no button can be clicked under it.
Clickable == overlay = "hidden"

\* The session registry as uploads and queries fill it: the two requests of
\* each, and stand-alone list requests, answered in any order.
RegistryNext ==
    \/ Clickable /\ \/ Refresh
                    \/ \E n \in 0..2 : UploadFiles(n)
                    \/ \E query \in {"", "select"} : RunQuery("postgres", query)
    \/ \E resp \in ListResps : LoadSessionsResponse(resp)
    \/ \E i \in InFlight("upload") : \E resp \in Settled(UploadOkResps(i)) :
          UploadFilesResponse(i, resp)
    \/ \E i \in InFlight("query") : \E resp \in Settled({QueryOkResp}) :
          RunQueryResponse(i, resp)
    \/ \E i \in DOMAIN ops : \E resp \in ListResps : InnerLoadResponse(i, resp)

RegistrySpec == RunInit /\ [][RegistryNext]_vars

\* Deletions and renames next to a reload of the list, answered in any order.
EditNext ==
    \/ Clickable /\ \/ Refresh
                    \/ \E id \in Cards : \E confirmed \in BOOLEAN : DeleteSession(id, confirmed)
                    \/ \E id \in Cards : ShowRenameModal(id)
                    \/ \E newName \in {"", "renamed"} : RenameSource(newName)
    \/ \E resp \in ListResps : LoadSessionsResponse(resp)
    \/ \E e \in DOMAIN edits : \E resp \in EditResps : DeleteSessionResponse(e, resp)
    \/ \E e \in DOMAIN edits : \E resp \in EditResps : RenameSourceResponse(e, resp)
    \/ \E e \in DOMAIN edits : \E resp \in ListResps : EditLoadResponse(e, resp)

EditSpec == RunInit /\ [][EditNext]_vars

\* The page right after it has loaded against a backend holding three
\* sources: the rule list has arrived, the first list request is in flight.
CompareInit ==
    /\ currentView = "data"
    /\ sessions = <<>>
    /\ backend = BackendThree
    /\ listed = <<>>
    /\ availableRules = AvailableRules
    /\ activeSession = Null
    /\ activeRules = <<>>
    /\ stateActiveRules = <<>>
    /\ currentRuleConfig = Null
    /\ formColumns = <<>>
    /\ formWidgets = <<>>
    /\ rulesPanel = RenderActiveRules(activeRules)
    /\ qcResults = NullResults
    /\ resultId = Null
    /\ rendered = <<>>
    /\ resultData = <<>>
    /\ groupedAggData = <<>>
    /\ tableBody = <<>>
    /\ download = NoDownload
    /\ resultsShown = FALSE
    /\ overlay = "hidden"
    /\ lastToast = Toast("none", "", "")
    /\ ops = <<>>
    /\ loads = [sessions |-> 1, rules |-> 0]
    /\ refreshes = 0
    /\ lastResp = Resp("json", TRUE, TRUE, Undefined, NoPayload)
    /\ edits = <<>>
    /\ renameSessionId = Undefined
    /\ viewerSession = Null
    /\ viewerPage = 0
    /\ viewerPageSize = 50
    /\ viewerTotalRows = 0
    /\ previews = <<>>
    /\ viewerBody = [session |-> Null, offset |-> 0, limit |-> 0]
    /\ pageIndicator = 0
    /\ formulaView = [source1 |-> "", source2 |-> "", matchBy |-> "", keyOptions |-> <<>>]
    /\ compareChecked = <<>>
    /\ keyOptions = <<>>
    /\ runCompareDisabled = TRUE

\* The compare view: boxes checked and unchecked, the list reloaded, the view
\* reopened, and the run button clicked while it is enabled.
CompareNext ==
    \/ Clickable /\ \/ \E id \in Range(SourceIds) : ToggleCompareSource(id)
                    \/ \E v \in {"data", "compare"} : Navigate(v)
                    \/ Refresh
                    \/ ~runCompareDisabled /\ \E f \in CheckedForms : RunComparison(f)
    \/ \E resp \in ListResps : LoadSessionsResponse(resp)
    \/ \E i \in InFlight("compare") :
          \E resp \in Settled({r \in CompareOkResps(i) : r.payload.aggregation.present}) :
             RunComparisonResponse(i, resp)

CompareSpec == CompareInit /\ [][CompareNext]_vars

\* The rule form over one-property schemas: every key, type, enum flag and
\* default the form generator tells apart, on source s1.
SchemaInit ==
    /\ currentView = "qc"
    /\ sessions = BackendInitial
    /\ backend = BackendInitial
    /\ availableRules \in
          { << [id |-> "probe", name |-> "Probe",
                properties |-> << Prop(key, typ, enum, default) >>, required |-> <<>>] >> :
              key \in {"column", "key_columns", "group_by", "limit"},
              typ \in {"array", "string", "boolean", "number", "integer"},
              enum \in BOOLEAN,
              default \in {Undefined, "loose", "true", "false", "7"} }
    /\ activeSession = "s1"
    /\ activeRules = <<>>
    /\ stateActiveRules = <<>>
    /\ currentRuleConfig = Null
    /\ formColumns = <<>>
    /\ formWidgets = <<>>
    /\ rulesPanel = RenderActiveRules(activeRules)
    /\ qcResults = NullResults
    /\ resultId = Null
    /\ rendered = <<>>
    /\ resultData = <<>>
    /\ groupedAggData = <<>>
    /\ tableBody = <<>>
    /\ download = NoDownload
    /\ resultsShown = FALSE
    /\ overlay = "hidden"
    /\ lastToast = Toast("success", "Source selected for QC checks", "")
    /\ ops = <<>>
    /\ loads = [sessions |-> 0, rules |-> 0]
    /\ refreshes = 0
    /\ lastResp = Resp("json", TRUE, TRUE, Undefined, [sources |-> BackendInitial])
    /\ edits = <<>>
    /\ renameSessionId = Undefined
    /\ viewerSession = Null
    /\ viewerPage = 0
    /\ viewerPageSize = 50
    /\ viewerTotalRows = 0
    /\ previews = <<>>
    /\ viewerBody = [session |-> Null, offset |-> 0, limit |-> 0]
    /\ pageIndicator = 0
    /\ formulaView = [source1 |-> "", source2 |-> "", matchBy |-> "", keyOptions |-> <<>>]
    /\ compareChecked = <<>>
    /\ keyOptions = <<>>
    /\ listed = BackendInitial
    /\ runCompareDisabled = FALSE

\* Opening the form, submitting every form it can hold, removing rules.
SchemaNext ==
    \/ ShowRuleConfig("probe")
    \/ \E f \in SubmittedForms(TRUE) : AddRuleFromModal(f)
    \/ \E index \in 0..MaxRules : RemoveRule(index)

SchemaSpec == SchemaInit /\ [][SchemaNext]_vars

\* The result renderer: rule runs whose results carry failed rows and grouped
\* rows, and the table buttons.
\* n failed rows over columns a, b: a field with a comma beside an integer, a
\* field with a double quote beside null, a field with a newline in a row
\* that has no b, then plain rows.
SampleRows(n) ==
    [i \in 1..n |->
        CASE i = 1 -> Row(<< <<"a">>, <<"b">> >>,
                          << Cell("string", <<"x", ",", "y">>, 0), Cell("number", <<>>, 1) >>)
          [] i = 2 -> Row(<< <<"a">>, <<"b">> >>,
                          << Cell("string", <<"q", "\"", "r">>, 0), Cell("null", <<>>, 0) >>)
          [] i = 3 -> Row(<< <<"a">> >>, << Cell("string", <<"l", "\n", "m">>, 0) >>)
          [] OTHER -> Row(<< <<"a">>, <<"b">> >>,
                          << Cell("string", <<"p">>, 0), Cell("number", <<>>, i) >>)]

\* The bodies POST /api/qc/run returns when validators report rows: one result
\* per rule sent, the first two carrying tables of these sizes; the grouped
\* rows are over a group column and a column whose name holds a comma.
TableOkResps(i) ==
    LET GroupedRows(g) ==
            [n \in 1..g |-> Row(<< <<"g">>, <<"n", ",", "k">> >>,
                                << Cell("string", <<"k">>, 0), Cell("number", <<>>, n) >>)]
    IN
    { Resp("json", TRUE, TRUE, Undefined,
           RulesPayload(
              ListResults([k \in DOMAIN ops[i].req.rules |->
                  [Result(ops[i].req.rules[k].rule_id, FALSE, "checked") EXCEPT
                      !.failed_rows = SampleRows(IF k = 1 THEN first[1]
                                                 ELSE IF k = 2 THEN second[1] ELSE 0),
                      !.grouped_table = GroupedRows(IF k = 1 THEN first[2]
                                                    ELSE IF k = 2 THEN second[2] ELSE 0)]]),
              ResultIdOf(i), FALSE)) :
        first \in { <<0, 0>>, <<1, 0>>, <<20, 2>>, <<37, 51>> },
        second \in { <<0, 0>>, <<21, 2>> } }

ResultsNext ==
    \/ Clickable /\ \/ RunQCChecks
                    \/ \E f \in SubmittedForms(FALSE) : AddRuleFromModal(f)
    \/ \E i \in InFlight("rules") :
          \E resp \in {Resp("json", TRUE, TRUE, Undefined,
                             RulesPayload(ListResults(<<>>), ResultIdOf(i), TRUE))}
                      \cup TableOkResps(i) :
             RunQCChecksResponse(i, resp)
    \/ \E resultIdx \in 0..(MaxRules - 1) :
          \/ ToggleShowAll(resultIdx)
          \/ ExportSection(resultIdx)
          \/ ExportGroupedAgg(resultIdx)

ResultsSpec == RunInit /\ [][ResultsNext]_vars

\* The comparison with its analysis toggles set every way, answered by bodies
\* whose sections are there or not and carry few rows or more than 100, and
\* the export of the cards drawn from them.
SectionsNext ==
    \/ Clickable /\ \E f \in CompareForms({<<TRUE, TRUE, TRUE>>, <<TRUE, FALSE, FALSE>>,
                                            <<FALSE, TRUE, TRUE>>, <<FALSE, FALSE, FALSE>>},
                                           {""}, {<<>>}) :
                       RunComparison(f)
    \/ \E i \in InFlight("compare") :
          \E dup \in {Absent, Section(TRUE, 101, SampleRows(101))},
             uniq \in {<<>>, << [source |-> "s1", rows |-> SampleRows(1)],
                                [source |-> "s2", rows |-> <<>>] >>},
             diff \in {Absent, Section(TRUE, 3, SampleRows(3))},
             agg \in {Absent, Section(TRUE, 0, <<>>)} :
             RunComparisonResponse(i, Resp("json", TRUE, TRUE, Undefined,
                                           ComparePayloadOf(dup, uniq # <<>>, uniq, diff, agg,
                                                            ResultIdOf(i))))
    \/ \E resultIdx \in 0..1 : ExportSection(resultIdx)

SectionsSpec == RunInit /\ [][SectionsNext]_vars

\* The data viewer: a source opened, pages turned and the page size changed
\* while earlier page requests are still in flight, answered in any order.
ViewerNext ==
    \/ \E id \in Range(SourceIds) : \E totalRows \in {0, 50, 70} : ViewData(id, totalRows)
    \/ \E size \in {50, 100} : ChangePageSize(size)
    \/ PrevPage
    \/ NextPage
    \/ \E i \in DOMAIN previews :
          \E resp \in { Resp("rejected", FALSE, FALSE, Undefined, NoPayload),
                        RejectedResp,
                        Resp("json", TRUE, TRUE, Undefined, NoPayload) } :
             LoadPageDataResponse(i, resp)

ViewerSpec == RunInit /\ [][ViewerNext]_vars

\* The formula calculator: its sources and match-by select changed in any
\* order, the run button clicked with any of the key options selected.
FormulaNext ==
    \/ \E which \in 1..2 : \E id \in Range(SourceIds) : ChangeFormulaSource(which, id)
    \/ \E value \in {"index", "key"} : ChangeFormulaMatchBy(value)
    \/ Clickable /\ \E f \in FormulaForms({formulaView.source1}, {formulaView.source2}, {"b"},
                                          {formulaView.matchBy},
                                          SubSeqs(formulaView.keyOptions)) :
                       RunFormulaCalculation(f)
    \/ \E i \in InFlight("formula") : \E resp \in {RejectedResp} \cup FormulaOkResps(i) :
          RunFormulaResponse(i, resp)

FormulaSpec == RunInit /\ [][FormulaNext]_vars

\* ------------------------------------------------------------------ claims
\* Some required property of the rule is absent from the serialized form
\* values, or is an empty array.
RequiredUnset(rule, form) ==
    LET config == SerializeForm(rule, form)
    IN  \E k \in Range(rule.required) :
            \/ k \notin DOMAIN config
            \/ config[k] = ArrV(<<>>)

\* C1: for any rule schema and any form input, if a required property is absent
\* from the serialized form values or is an empty array, addRuleFromModal
\* reports a validation failure (an error toast naming a required field) and
\* leaves QCRules.activeRules and App.state.activeRules unchanged.
C1_RequiredUnsetBlocksAdd ==
    [][ currentRuleConfig # Null =>
          \A f \in SubmittedForms(TRUE) :
             (RequiredUnset(RuleById(availableRules, currentRuleConfig), f) /\ AddRuleFromModal(f)) =>
                /\ lastToast'.type = "error"
                /\ lastToast'.detail = "is required"
                /\ lastToast'.text \in Range(RuleById(availableRules, currentRuleConfig).required)
                /\ UNCHANGED << activeRules, stateActiveRules >> ]_vars

\* A submission with an empty column selection for the uniqueness rule has been
\* refused: the error names the field, and no rule is held.
C1_Witness ==
    /\ currentRuleConfig = "uniqueness"
    /\ formColumns # <<>>
    /\ lastToast = Toast("error", "columns", "is required")
    /\ activeRules = <<>>
    /\ stateActiveRules = <<>>

\* --------------------------------------------------- claims about the runs
RunKinds == {"rules", "compare", "formula"}

\* This step is the continuation of run i reading its response.
RunResponds(i) ==
    /\ ops[i].kind \in RunKinds
    /\ ops[i].pc = "awaiting"
    /\ ops'[i].pc = "done"

\* The result list a run's handler builds from a 2xx body.
BuiltFrom(op, resp) ==
    CASE op.kind = "rules" -> resp.payload.results
      [] op.kind = "compare" -> ListResults(BuildComparisonResults(op.req, resp.payload))
      [] op.kind = "formula" -> ListResults(<< Result("Formula", TRUE, "Calculated values") >>)

\* C2: only the most recent user-initiated run's result is shown: a successful
\* response of run A that arrives after a run B dispatched later than A has
\* already succeeded leaves qcResults and resultId as they are (B's).
C2_MostRecentRunShown ==
    [][ \A i \in DOMAIN ops :
          ( /\ RunResponds(i)
            /\ ops'[i].outcome = "ok"
            /\ \E j \in DOMAIN ops :
                  /\ j > i
                  /\ ops[j].kind \in RunKinds
                  /\ ops[j].pc = "done"
                  /\ ops[j].outcome = "ok" )
          => UNCHANGED << qcResults, resultId >> ]_vars

\* C3: whichever run was dispatched first, a successful response installs its
\* own results and token when it resolves, also while or after another run is
\* in flight: the response that resolves last determines qcResults and
\* resultId, and none is discarded as stale.
C3_LastResponseWins ==
    [][ \A i \in DOMAIN ops :
          ( /\ RunResponds(i)
            /\ ops'[i].outcome = "ok"
            /\ \E j \in DOMAIN ops : j # i /\ ops[j].kind \in RunKinds )
          => /\ resultId' = ResultIdOf(i)
             /\ resultId' = lastResp'.payload.result_id
             /\ qcResults' = BuiltFrom(ops[i], lastResp') ]_vars

\* Two runs overlapped, both succeeded, and the one dispatched first resolved
\* last: its token is the one held.
C3_Witness ==
    /\ Len(ops) >= 2
    /\ ops[1].kind \in RunKinds /\ ops[1].pc = "done" /\ ops[1].outcome = "ok"
    /\ ops[2].kind \in RunKinds /\ ops[2].pc = "done" /\ ops[2].outcome = "ok"
    /\ resultId = ResultIdOf(1)
    /\ lastResp.payload = [hasStatistics |-> TRUE, result_id |-> ResultIdOf(1)]

\* C4: each successful run replaces the held results wholesale: when results
\* of an earlier run are held, the results after setResults are exactly the
\* list built from the new response (none of the old ones, no merge, no
\* append), and that list is what Results.render draws.
C4_ReplacedWholesale ==
    [][ \A i \in DOMAIN ops :
          ( /\ RunResponds(i)
            /\ ops'[i].outcome = "ok"
            /\ qcResults.tag = "list"
            /\ qcResults.items # <<>> )
          => /\ qcResults' = BuiltFrom(ops[i], lastResp')
             /\ Len(qcResults'.items) = Len(BuiltFrom(ops[i], lastResp').items)
             /\ rendered' = BuiltFrom(ops[i], lastResp').items ]_vars

\* A rule run and then a comparison have succeeded: exactly the comparison's
\* two results are held and drawn, no rule result among them.
C4_Witness ==
    /\ Len(ops) >= 2
    /\ ops[1].kind = "rules" /\ ops[1].pc = "done" /\ ops[1].outcome = "ok"
    /\ ops[2].kind = "compare" /\ ops[2].pc = "done" /\ ops[2].outcome = "ok"
    /\ resultId = ResultIdOf(2)
    /\ qcResults = ListResults(<< Result("Duplicates", FALSE, "duplicate rows"),
                                  Result("s1", TRUE, "rows only in this source"),
                                  Result("Value Differences", TRUE,
                                         "rows with value differences") >>)
    /\ rendered = qcResults.items

\* C6: runComparison with fewer than 2 checked sources, or with no key column
\* selected, issues no request, does not show the overlay and leaves
\* qcResults, resultId and the current view unchanged; every dispatched
\* comparison payload has at least 2 session ids and a non-empty key_columns.
C6_ComparisonPreconditions ==
    [][ /\ \A f \in RunCompareForms :
             ((Len(f.checked) < 2 \/ Len(f.keyColumns) = 0) /\ RunComparison(f))
             => UNCHANGED << ops, overlay, qcResults, resultId, currentView >>
        /\ \A i \in DOMAIN ops' :
             (ops'[i].kind = "compare" /\ ops'[i].pc = "awaiting")
             => /\ Len(ops'[i].req.session_ids) >= 2
                /\ Len(ops'[i].req.key_columns) >= 1 ]_vars

\* Two sources were checked but no key column: the warning is shown, nothing
\* was dispatched.
C6_Witness ==
    /\ lastToast = Toast("warning", "Please select at least one key column for matching", "")
    /\ ops = <<>>
    /\ overlay = "hidden"
    /\ qcResults = NullResults

\* C7: runQCChecks issues a request only when at least one rule is configured
\* and an active source is set; otherwise it issues none and leaves results,
\* current view and overlay unchanged.  Every dispatched rule-run request
\* carries a non-empty rules list and a defined session_id.
C7_RuleRunPreconditions ==
    [][ /\ ((Len(activeRules) = 0 \/ ~TruthyId(activeSession)) /\ RunQCChecks)
           => UNCHANGED << ops, overlay, qcResults, resultId, rendered, resultsShown,
                           currentView >>
        /\ \A i \in DOMAIN ops' :
             (ops'[i].kind = "rules" /\ ops'[i].pc = "awaiting")
             => /\ Len(ops'[i].req.rules) >= 1
                /\ TruthyId(ops'[i].req.session_id) ]_vars

\* A rule is configured but an upload has left activeSession undefined: the
\* run was refused with the warning.
C7_Witness ==
    /\ activeRules # <<>>
    /\ activeSession = Undefined
    /\ lastToast = Toast("warning", "Please select a data source", "")
    /\ \A i \in DOMAIN ops : ops[i].kind # "rules"

\* C8: runFormulaCalculation with matchBy = key and no key column selected
\* issues no request and changes no result state; every dispatched formula
\* request with match_by = key has a non-empty key_columns list, and every
\* dispatched formula request names both sources and both columns.
C8_FormulaPreconditions ==
    [][ /\ \A f \in RunFormulaForms :
             (f.matchBy = "key" /\ Len(f.keyColumns) = 0 /\ RunFormulaCalculation(f))
             => UNCHANGED << ops, overlay, qcResults, resultId, rendered, resultsShown >>
        /\ \A i \in DOMAIN ops' :
             (ops'[i].kind = "formula" /\ ops'[i].pc = "awaiting")
             => /\ ops'[i].req.match_by = "key" => Len(ops'[i].req.key_columns) >= 1
                /\ ops'[i].req.source1_id # "" /\ ops'[i].req.source2_id # ""
                /\ ops'[i].req.column1 # "" /\ ops'[i].req.column2 # "" ]_vars

\* Key matching was chosen with sources and columns set but no key column:
\* the warning is shown and nothing was dispatched.
C8_Witness ==
    /\ lastToast = Toast("warning", "Please select key column(s) for matching", "")
    /\ ops = <<>>
    /\ qcResults = NullResults

C10_RejectionLeavesResults ==
    [][ \A i \in DOMAIN ops :
          (RunResponds(i) /\ ops'[i].outcome = "rejected")
          => /\ UNCHANGED << qcResults, resultId, currentView >>
             /\ lastToast'.type = "error"
             /\ lastToast'.detail = lastResp'.error ]_vars

\* ------------------------------------------- claims about the comparison run
\* This step is the continuation of comparison i reading a 2xx body.
CompareSucceeds(i) ==
    /\ ops[i].kind = "compare"
    /\ ops[i].pc = "awaiting"
    /\ ops'[i].pc = "done"
    /\ ~Throws(lastResp')

Placeholder == Result("Comparison Results", TRUE, "No analysis options selected")

NothingRequested(req) ==
    /\ ~req.analysis.duplicates
    /\ ~req.analysis.unique
    /\ ~req.analysis.not_matched
    /\ req.aggregation = NullConfig

\* C11: after every successful comparison call the list handed to setResults
\* is non-empty, and when every analysis toggle is off and no aggregation was
\* requested it is exactly the one placeholder result (passed, 'No analysis
\* options selected').
C11_NeverEmptyPlaceholder ==
    [][ \A i \in DOMAIN ops :
          CompareSucceeds(i)
          => /\ qcResults'.tag = "list"
             /\ qcResults'.items # <<>>
             /\ NothingRequested(ops[i].req) => qcResults'.items = << Placeholder >> ]_vars

HasAggregationResult(results) ==
    \E k \in DOMAIN results.items : results.items[k].rule_name = "Aggregation"

\* C12: the results of a comparison contain an aggregation result only if the
\* request carried a non-null aggregation and the response contains
\* aggregation data; aggregation data answering a request that sent
\* aggregation = null yields no aggregation result.
C12_AggregationOnlyIfRequested ==
    [][ \A i \in DOMAIN ops :
          (CompareSucceeds(i) /\ HasAggregationResult(qcResults'))
          => /\ ops[i].req.aggregation # NullConfig
             /\ CompareData(lastResp').aggregation.present ]_vars

\* What a run's handler hands to setResults for a 2xx body: the list and the token.
HandedToSetResults(op, resp) ==
    CASE op.kind = "rules" -> << RulesData(resp).results, RulesData(resp).result_id >>
      [] op.kind = "compare" ->
            << ListResults(BuildComparisonResults(op.req, CompareData(resp))),
               CompareData(resp).result_id >>
      [] op.kind = "formula" ->
            << ListResults(<< Result("Formula", TRUE, "Calculated values") >>),
               FormulaData(resp).result_id >>

\* The kind of run a held result list came from, by the results in it.
KindOfResults(results) ==
    IF \E k \in DOMAIN results.items : results.items[k].message = "checked" THEN "rules"
    ELSE IF \E k \in DOMAIN results.items : results.items[k].rule_name = "Formula" THEN "formula"
    ELSE "compare"

\* C13: qcResults and resultId always come from the same response: whenever
\* either changes, both are the list and the token one run built from the
\* response it has just read, and the view is then 'results'; the token held
\* is never that of a run of another kind than the results held, and is null
\* exactly while the results are.
C13_ResultsAndTokenTogether ==
    /\ [][ (qcResults' # qcResults \/ resultId' # resultId)
            => \E i \in DOMAIN ops :
                  /\ RunResponds(i)
                  /\ << qcResults', resultId' >> = HandedToSetResults(ops[i], lastResp')
                  /\ currentView' = "results" ]_vars
    /\ [] /\ (resultId = Null) <=> (qcResults = NullResults)
          /\ \A i \in DOMAIN ops :
                resultId = ResultIdOf(i)
                => qcResults.tag = "list" /\ KindOfResults(qcResults) = ops[i].kind

\* A rule run's results were held and then a comparison, dispatched while the
\* rule run was still in flight, answered a 2xx without a body: the
\* placeholder and the absent token replaced both the rule results and their
\* token.
C13_Witness ==
    /\ Len(ops) = 2
    /\ ops[1].kind = "rules" /\ ops[1].pc = "done" /\ ops[1].outcome = "ok"
    /\ ops[2].kind = "compare" /\ ops[2].pc = "done" /\ ops[2].outcome = "rejected"
    /\ qcResults = ListResults(<< Placeholder >>)
    /\ resultId = Undefined
    /\ currentView = "results"

\* ------------------------------------------ claims about the session registry
\* C14: if the list request of loadSessions fails (network error, unparsable
\* body, or a body with success false), App.state.sessions keeps exactly the
\* contents it had before the call, whoever called loadSessions.
C14_FailedListKeepsSessions ==
    [][ \A resp \in ListResps :
          ( /\ ~ListSucceeded(resp)
            /\ \/ LoadSessionsResponse(resp)
               \/ \E i \in DOMAIN ops : InnerLoadResponse(i, resp) )
          => sessions' = sessions ]_vars

\* The refresh button's list request came back unparsable while the list was
\* held: the list is still the one the backend returned before.
C14_Witness ==
    /\ refreshes = 1
    /\ loads.sessions = 0
    /\ ops = <<>>
    /\ lastResp.transport = "unparsable"
    /\ sessions = BackendInitial

\* C15: deleteSession and renameSource change App.state.sessions only through
\* the list reload that follows a 2xx answer: dispatching the DELETE / PUT
\* changes nothing, a request that fails or comes back non-2xx leaves the list
\* as it was (the source in place, under its old name) and shows an error,
\* and a declined confirmation does nothing at all.
C15_EditsWaitForBackend ==
    [][ /\ Len(edits') > Len(edits) => sessions' = sessions
        /\ \A id \in Cards : DeleteSession(id, FALSE) => UNCHANGED << sessions, edits >>
        /\ \A e \in DOMAIN edits :
             /\ (edits[e].pc = "awaiting" /\ edits'[e].pc # "awaiting")
                => sessions' = sessions
             /\ (edits[e].pc = "awaiting" /\ edits'[e].pc = "awaiting_list")
                => lastResp'.transport # "rejected" /\ lastResp'.ok
             /\ (edits[e].pc = "awaiting" /\ edits'[e].pc = "done")
                => /\ lastToast'.type = "error"
                   /\ \A k \in DOMAIN sessions :
                         /\ sessions'[k].source_id = sessions[k].source_id
                         /\ sessions'[k].source_name = sessions[k].source_name ]_vars

\* A rename was answered with a non-2xx: the source is listed under its old
\* name and the error is shown.
C15_Witness ==
    /\ Len(edits) = 1
    /\ edits[1].kind = "rename"
    /\ edits[1].pc = "done"
    /\ lastToast = Toast("error", "Rename failed", "BackendError")
    /\ \E k \in DOMAIN sessions :
          sessions[k].source_id = edits[1].id /\ sessions[k].source_name = edits[1].id

\* This step ends a mutating call: the list reload that follows an upload, a
\* query, a deletion or a rename has settled.
MutationCompletes ==
    \/ \E i \in DOMAIN ops : ops[i].pc = "awaiting_list" /\ ops'[i].pc = "done"
    \/ \E e \in DOMAIN edits : edits[e].pc = "awaiting_list" /\ edits'[e].pc = "done"

\* C16: when a mutating call (upload, query, delete, rename) has completed,
\* App.state.sessions is the list the backend returned last, and holds no
\* locally built record, also when the reload after the mutation failed.
C16_SessionsResynced ==
    [][ MutationCompletes
        => /\ sessions' = listed'
           /\ \A k \in DOMAIN sessions' : sessions'[k].session_id # Undefined ]_vars

\* The file number of the last file of an upload response that loaded.
LastLoaded(loaded) ==
    CHOOSE k \in DOMAIN loaded : loaded[k] /\ \A m \in DOMAIN loaded : m > k => ~loaded[m]

\* C17: addSession appends the record and marks it active: right after
\* uploadFiles / runQuery have added their records, the last element of
\* sessions is the record of the last successfully loaded file (of the query)
\* and activeSession is its identifier.
C17_AddSessionMarksActive ==
    [][ \A i \in DOMAIN ops :
          (ops[i].pc = "awaiting" /\ ops'[i].pc = "awaiting_list")
          => LET k == IF ops[i].kind = "upload" THEN LastLoaded(lastResp'.payload.loaded) ELSE 1
                 last == sessions'[Len(sessions')]
             IN  /\ Len(sessions') > Len(sessions)
                 /\ last.source_id = NewSourceId(i, k)
                 /\ last.columns = NewSourceColumns
                 /\ activeSession' = NewSourceId(i, k) ]_vars

\* ------------------------------------------- claims about the compare view
\* C18: the comparison run button is enabled exactly when at least 2 sources
\* are checked: runCompareBtn is disabled iff fewer than 2 boxes are checked,
\* in every state, also after a reload of the list or a refresh of the view.
C18_RunEnabledIffTwoChecked ==
    runCompareDisabled <=> (Len(CheckedListed(compareChecked)) < 2)

\* The columns every one of the given sources has.
InAll(ids) ==
    IF ids = {} THEN {}
    ELSE {c \in UNION {Range(ColumnsOfSource(id)) : id \in ids} :
             \A id \in ids : c \in Range(ColumnsOfSource(id))}

\* C19: the selectable key / value columns are exactly the intersection of
\* the column lists of the sources checked now, whatever the order they were
\* checked in; an unchecked source no longer counts.
C19_KeyOptionsAreIntersection ==
    /\ Range(keyOptions) = InAll(Range(CheckedListed(compareChecked)))
    /\ Len(keyOptions) = Cardinality(Range(keyOptions))

\* s2 (b, c, d) was checked before s1 (a, b, c), and s3 is not checked: the
\* options are b and c.
C19_Witness ==
    /\ compareChecked = << "s2", "s1" >>
    /\ Range(keyOptions) = {"b", "c"}

\* C20: getAggregationConfig gives null for no aggregation rows and otherwise
\* every configured row, unchanged and in order: the dispatched aggregation
\* list has one entry per row, rows on the same column or identical rows
\* included.
C20_AggregationRowsPassThrough ==
    [][ \A f \in CheckedForms :
          (RunComparison(f) /\ Len(ops') > Len(ops))
          => LET sent == ops'[Len(ops')].req.aggregation
             IN  IF f.aggRows = <<>> THEN sent = NullConfig
                 ELSE /\ sent.enabled
                      /\ Len(sent.aggregations) = Len(f.aggRows)
                      /\ \A k \in DOMAIN f.aggRows : sent.aggregations[k] = f.aggRows[k] ]_vars

\* A comparison is in flight whose request lists sum and avg of the same
\* column as two entries.
C20_Witness ==
    \E i \in DOMAIN ops :
        /\ ops[i].kind = "compare"
        /\ ops[i].pc = "awaiting"
        /\ ops[i].req.aggregation.aggregations = << AggRow("b", "sum"), AggRow("b", "avg") >>

C30_PayloadWithinBounds ==
    \A i \in DOMAIN ops :
        (ops[i].kind = "compare" /\ ops[i].pc = "awaiting")
        => /\ ops[i].req.tolerance.numeric >= 0
           /\ ops[i].req.tolerance.date >= 0
           /\ ops[i].req.options.fuzzy_threshold >= 0
           /\ ops[i].req.options.fuzzy_threshold <= 100

\* C25: the control drawn for a schema property is decided by the first rule
\* that matches, in this order: an array property whose name contains 'column'
\* or is 'group_by' is a multi-select of the columns; any other property whose
\* name contains 'column' is a single-select of the columns; an enumerated
\* property is a select with its default pre-selected; a boolean property is a
\* checkbox checked as its default says; a number or integer property is a
\* number input; anything else is a text input.
C25_WidgetPrecedence ==
    currentRuleConfig # Null =>
        LET properties == RuleById(availableRules, currentRuleConfig).properties
        IN  /\ DOMAIN formWidgets = DOMAIN properties
            /\ \A i \in DOMAIN properties :
                  LET p == properties[i]
                      w == formWidgets[i]
                      named == KeyIncludesColumn(p.key)
                  IN  /\ w.key = p.key
                      /\ IF p.typ = "array" /\ (named \/ p.key = "group_by")
                         THEN w.kind = "multiselect" /\ w.options = formColumns
                         ELSE IF named
                         THEN w.kind = "select" /\ w.options = formColumns
                         ELSE IF p.enum
                         THEN /\ w.kind = "enum"
                              /\ (\E k \in DOMAIN w.options : w.options[k] = p.default)
                                    => w.initial = p.default
                         ELSE IF p.typ = "boolean"
                         THEN /\ w.kind = "checkbox"
                              /\ (w.initial = "checked") <=> (p.default \notin {Undefined, "false"})
                         ELSE IF p.typ \in {"number", "integer"}
                         THEN w.kind = "number"
                         ELSE w.kind = "text"

\* A boolean, enumerated property named after a column is drawn as a column
\* select.
C25_Witness ==
    /\ currentRuleConfig # Null
    /\ Len(formWidgets) = 1
    /\ availableRules[1].properties[1].enum
    /\ availableRules[1].properties[1].typ = "boolean"
    /\ availableRules[1].properties[1].key = "key_columns"
    /\ formWidgets[1].kind = "select"
    /\ formWidgets[1].options = <<"a", "b">>

\* C26: what addRuleFromModal stores for a property follows the control drawn
\* for it: a checkbox always stores its checked state, a multi-select always
\* stores the array of selected values (empty if none), a number input stores
\* the parsed number and is left out when the text does not parse, any other
\* control stores its raw text and is left out when that is empty; nothing but
\* the schema's properties is stored.
C26_SerializationByWidget ==
    [][ \A f \in SubmittedForms(TRUE) :
          (AddRuleFromModal(f) /\ Len(activeRules') = Len(activeRules) + 1)
          => LET config == activeRules'[Len(activeRules')].config
             IN  /\ DOMAIN config \subseteq {formWidgets[i].key : i \in DOMAIN formWidgets}
                 /\ \A i \in DOMAIN formWidgets :
                       LET key == formWidgets[i].key
                           kind == formWidgets[i].kind
                       IN  CASE kind = "checkbox" ->
                                  key \in DOMAIN config /\ config[key] = BoolV(f[key].checked)
                             [] kind = "multiselect" ->
                                  key \in DOMAIN config /\ config[key] = ArrV(f[key].selected)
                             [] kind = "number" ->
                                  IF f[key].value = "0" THEN key \in DOMAIN config /\ config[key] = NumV(0)
                                  ELSE IF f[key].value = "7" THEN key \in DOMAIN config /\ config[key] = NumV(7)
                                  ELSE key \notin DOMAIN config
                             [] OTHER ->
                                  IF f[key].value = "" THEN key \notin DOMAIN config
                                  ELSE key \in DOMAIN config /\ config[key] = StrV(f[key].value) ]_vars

\* A number input holding 0 has been stored as the number 0.
C26_Witness ==
    \E i \in DOMAIN activeRules :
        /\ "limit" \in DOMAIN activeRules[i].config
        /\ activeRules[i].config["limit"] = NumV(0)

\* C27: the rule set is an ordered list that keeps duplicates: an add that
\* passes validation appends exactly one entry, for the rule the form is open
\* on, at the end; removeRule(i) removes exactly the entry at index i and keeps
\* the order of the others; and the displayed count and the run-rules control
\* (enabled exactly when the list is not empty) follow the list's length.
C27_OrderedRuleList ==
    [][ /\ \A f \in SubmittedForms(TRUE) :
              (AddRuleFromModal(f) /\ lastToast' = lastToast)
              => /\ Len(activeRules') = Len(activeRules) + 1
                 /\ \A k \in DOMAIN activeRules : activeRules'[k] = activeRules[k]
                 /\ activeRules'[Len(activeRules')].rule_id = currentRuleConfig
        /\ \A index \in 0..MaxRules :
              RemoveRule(index)
              => /\ Len(activeRules') = Len(activeRules) - 1
                 /\ \A k \in 1..index : activeRules'[k] = activeRules[k]
                 /\ \A k \in (index + 1)..Len(activeRules') : activeRules'[k] = activeRules[k + 1]
        /\ stateActiveRules' = activeRules'
        /\ rulesPanel'.count = Len(activeRules')
        /\ rulesPanel'.runDisabled <=> (activeRules' = <<>>) ]_vars

\* The same rule with the same parameters has been added twice.
C27_Witness ==
    /\ Len(activeRules) = 2
    /\ activeRules[1] = activeRules[2]
    /\ rulesPanel = [count |-> 2, runDisabled |-> FALSE]

\* --------------------------------------- claims about failure notifications
\* C28: every failed backend request is surfaced to the user: when the list
\* request of loadSessions fails (network error, unparsable body, non-2xx or
\* success false), the handler leaves an error toast.
C28_FailedLoadShowsToast ==
    [][ \A resp \in ListResps :
          (LoadSessionsResponse(resp) /\ ~ListSucceeded(resp))
          => lastToast'.type = "error" ]_vars

\* ------------------------------------------- claims about the result renderer
\* The records of a csv text read back the way a spreadsheet reads them: a
\* comma or a newline separates only when the double quotes before it pair
\* up; a field wrapped in double quotes stands for what is between them, two
\* double quotes there standing for one.  Each field is kept with whether it
\* was quoted.
CsvRecords(text) ==
    LET quotes == {k \in DOMAIN text : text[k] = "\""}
        Outside(i) == Cardinality({k \in quotes : k < i}) % 2 = 0
        IsEnd(i) == text[i] = "\n" /\ Outside(i)
        IsSep(i) == text[i] = "," /\ Outside(i)
        ends == SelectSeq([i \in 1..Len(text) |-> i], IsEnd)
        Field(from, to) ==
            LET raw == [k \in 1..(to - from + 1) |-> text[from + k - 1]]
                quoted == Len(raw) >= 2 /\ raw[1] = "\"" /\ raw[Len(raw)] = "\""
                inner == IF quoted THEN SubSeq(raw, 2, Len(raw) - 1) ELSE raw
                Kept(k) == \/ inner[k] # "\""
                           \/ ~quoted
                           \/ Cardinality({m \in 1..k : inner[m] = "\""}) % 2 = 0
                keep == SelectSeq([k \in 1..Len(inner) |-> k], Kept)
            IN  [s |-> [j \in 1..Len(keep) |-> inner[keep[j]]], quoted |-> quoted]
        Record(from, to) ==
            LET seps == SelectSeq([i \in 1..(to - from + 1) |-> from + i - 1], IsSep)
                n == Len(seps)
            IN  [j \in 1..(n + 1) |->
                    Field(IF j = 1 THEN from ELSE seps[j - 1] + 1,
                          IF j = n + 1 THEN to ELSE seps[j] - 1)]
    IN  [r \in 1..Len(ends) |->
            Record(IF r = 1 THEN 1 ELSE ends[r - 1] + 1, ends[r] - 1)]

\* The text reads back as the header and one record per row, every field
\* being the value's text (empty for null, undefined or a missing key) and
\* quoted exactly when that text holds a comma, a double quote or a newline.
CsvMatches(text, columns, rows) ==
    LET recs == CsvRecords(text)
        Special(str) == \E k \in DOMAIN str : str[k] \in {",", "\"", "\n"}
        TextOf(row, c) ==
            IF \E k \in DOMAIN row.keys : row.keys[k] = c
            THEN LET v == row.cells[CHOOSE k \in DOMAIN row.keys : row.keys[k] = c]
                 IN  IF v.t = "string" THEN v.s
                     ELSE IF v.t = "number" THEN Digits(v.n)
                     ELSE <<>>
            ELSE <<>>
    IN  /\ text # <<>> /\ text[Len(text)] = "\n"
        /\ Len(recs) = Len(rows) + 1
        /\ Len(recs[1]) = Len(columns)
        /\ \A j \in DOMAIN columns :
              /\ recs[1][j].s = columns[j]
              /\ recs[1][j].quoted <=> Special(columns[j])
        /\ \A k \in DOMAIN rows :
              /\ Len(recs[k + 1]) = Len(columns)
              /\ \A j \in DOMAIN columns :
                    /\ recs[k + 1][j].s = TextOf(rows[k], columns[j])
                    /\ recs[k + 1][j].quoted <=> Special(TextOf(rows[k], columns[j]))

\* C21: exportSection and exportGroupedAgg write a header line and one line
\* per row, fields joined by commas; a field is wrapped in double quotes, with
\* its double quotes doubled, exactly when it holds a comma, a double quote or
\* a newline; null and undefined are empty fields; integers are unquoted.
C21_CsvQuoting ==
    [][ \A resultIdx \in 0..(MaxRules - 1) :
          /\ (download' # download /\ ExportSection(resultIdx))
             => /\ download'.file = "qc_section"
                /\ download'.index = resultIdx + 1
                /\ CsvMatches(download'.csv,
                              rendered[resultIdx + 1].failed_rows[1].keys,
                              rendered[resultIdx + 1].failed_rows)
          /\ (download' # download /\ ExportGroupedAgg(resultIdx))
             => /\ download'.file = "grouped_aggregation"
                /\ CsvMatches(download'.csv,
                              rendered[resultIdx + 1].grouped_table[1].keys,
                              rendered[resultIdx + 1].grouped_table) ]_vars

\* The one-row table [{a: "x,y", b: 1}] has been exported as the header a,b
\* and the line "x,y",1.
C21_Witness ==
    /\ download.file = "qc_section"
    /\ download.csv = << "a", ",", "b", "\n",
                         "\"", "x", ",", "y", "\"", ",", "1", "\n" >>

\* C22: an export is complete whatever the table shows: exportSection(i)
\* writes every failed row held for result i, also while the table is
\* collapsed to its first 20, and exportGroupedAgg writes every grouped row,
\* not only the 50 displayed.
C22_ExportComplete ==
    [][ \A resultIdx \in 0..(MaxRules - 1) :
          /\ (lastToast'.text = "Exported rows to CSV" /\ ops' = ops
                 /\ ExportSection(resultIdx))
             => Len(CsvRecords(download'.csv))
                   = Len(rendered[resultIdx + 1].failed_rows) + 1
          /\ (lastToast'.text = "Exported grouped rows to CSV" /\ ops' = ops
                 /\ ExportGroupedAgg(resultIdx))
             => Len(CsvRecords(download'.csv))
                   = Len(rendered[resultIdx + 1].grouped_table) + 1 ]_vars

\* A table of 37 rows showing 20 has been exported with all 37.
C22_Witness ==
    /\ download.file = "qc_section"
    /\ download.index \in DOMAIN tableBody
    /\ Len(tableBody[download.index]) = 20
    /\ Len(rendered[download.index].failed_rows) = 37
    /\ Len(CsvRecords(download.csv)) = 38

\* C23: a table of n > 20 failed rows is drawn with its first 20; a toggle of
\* the collapsed table shows all n, a toggle of the expanded one shows the
\* first 20 again; a toggle sends no request and leaves the rows held alone.
C23_ToggleShowAll ==
    [][ /\ \A k \in DOMAIN rendered' :
              rendered' # rendered
              => tableBody'[k] = [j \in 1..(IF Len(rendered'[k].failed_rows) < 20
                                            THEN Len(rendered'[k].failed_rows) ELSE 20) |->
                                     rendered'[k].failed_rows[j]]
        /\ \A resultIdx \in 0..(MaxRules - 1) :
              ToggleShowAll(resultIdx)
              => LET all == rendered[resultIdx + 1].failed_rows
                 IN  /\ Len(all) > 20
                     /\ Len(tableBody[resultIdx + 1]) = 20 => tableBody'[resultIdx + 1] = all
                     /\ Len(tableBody[resultIdx + 1]) = Len(all)
                           => tableBody'[resultIdx + 1] = SubSeq(all, 1, 20)
                     /\ Len(tableBody[resultIdx + 1]) \in {20, Len(all)}
                     /\ UNCHANGED << ops, overlay, rendered, qcResults >>
                     /\ resultData'[resultIdx].rows = all ]_vars

\* The 37-row table is showing all 37 rows.
C23_Witness ==
    /\ 1 \in DOMAIN tableBody
    /\ Len(tableBody[1]) = 37
    /\ 0 \in DOMAIN resultData
    /\ resultData[0].expanded

\* C29: the renderer only reads: rendering, toggling and exporting leave
\* sessions, activeSession, the rule set, qcResults and resultId as they are
\* (a render draws exactly what setResults stored), and never change a result
\* or the rows kept for it.
C29_RendererReadOnly ==
    [][ /\ \A resultIdx \in 0..(MaxRules - 1) :
              (/\ ops' = ops
               /\ \/ ToggleShowAll(resultIdx)
                  \/ ExportSection(resultIdx)
                  \/ ExportGroupedAgg(resultIdx))
              => /\ UNCHANGED << sessions, activeSession, activeRules, stateActiveRules,
                                 qcResults, resultId, rendered, groupedAggData >>
                 /\ DOMAIN resultData' = DOMAIN resultData
                 /\ \A k \in DOMAIN resultData :
                       /\ resultData'[k].rows = resultData[k].rows
                       /\ resultData'[k].columns = resultData[k].columns
        /\ rendered' # rendered
              => /\ rendered' = qcResults'.items
                 /\ UNCHANGED << sessions, activeSession, activeRules, stateActiveRules >>
        /\ \A k \in DOMAIN rendered' :
              /\ (k - 1) \in DOMAIN resultData' => resultData'[k - 1].rows # <<>>
              /\ rendered'[k].failed_rows # <<>>
                    => resultData'[k - 1].rows = rendered'[k].failed_rows
              /\ rendered'[k].grouped_table # <<>>
                    => groupedAggData'[k - 1] = rendered'[k].grouped_table ]_vars

\* Both tables of a run have been exported and the failed-rows table expanded,
\* with the results still as the run stored them.
C29_Witness ==
    /\ download.file = "grouped_aggregation"
    /\ 0 \in DOMAIN resultData
    /\ resultData[0].expanded
    /\ qcResults.tag = "list"
    /\ qcResults.items = rendered
    /\ Len(rendered[1].grouped_table) = 51
    /\ groupedAggData[0] = rendered[1].grouped_table

\* ------------------------------------------- claims about required values
\* C38: addRuleFromModal adds the rule whenever every required property has a
\* serialized value that is present and is not an empty array, the number 0
\* and the boolean false included.
C38_PresentValuesAccepted ==
    [][ currentRuleConfig # Null =>
          \A f \in SubmittedForms(TRUE) :
             (~RequiredUnset(RuleById(availableRules, currentRuleConfig), f) /\ AddRuleFromModal(f))
             => Len(activeRules') = Len(activeRules) + 1 ]_vars

\* ----------------------------------- claims about the rule set and its source
\* C36: every rule of a dispatched rule-run request names only columns of the
\* source the request is sent for: its column-typed values are columns of the
\* session whose identifier is the request's session_id.
C36_RulesMatchRequestSource ==
    [][ (RunQCChecks /\ Len(ops') > Len(ops))
        => LET req == ops'[Len(ops')].req
               columns == {c \in UNION {Range(sessions[k].columns) : k \in DOMAIN sessions} :
                              \E k \in DOMAIN sessions :
                                 /\ sessions[k].source_id = req.session_id
                                 /\ c \in Range(sessions[k].columns)}
           IN  \A r \in DOMAIN req.rules :
                  \A key \in DOMAIN req.rules[r].config :
                     KeyIncludesColumn(key)
                     => LET v == req.rules[r].config[key]
                        IN  /\ v.t = "string" => v.s \in columns
                            /\ v.t = "array" => Range(v.a) \subseteq columns ]_vars

\* C33: whenever a request of an operation that shows the loading overlay is
\* in flight, the overlay is visible.
C33_OverlayWhileInFlight ==
    (\E i \in DOMAIN ops : ops[i].pc = "awaiting") => overlay = "visible"

\* ------------------------------------------- claims about the active source
\* C32: activeSession is always null or the identifier of a source that is in
\* sessions: never undefined, never the identifier of a source that is gone.
C32_ActiveSessionListed ==
    \/ activeSession = Null
    \/ /\ activeSession # Undefined
       /\ \E k \in DOMAIN sessions :
             activeSession \in {sessions[k].source_id, sessions[k].session_id}

\* ------------------------------------------- claims about the entered numbers
\* C39: the fuzzy threshold and the numeric and date tolerances of a
\* dispatched comparison payload are the numbers entered, for every parsable
\* entry, 0 included; the defaults (80, 0, 0) stand in only for an entry that
\* is empty or does not parse.
C39_EnteredNumbersSent ==
    [][ \A f \in CheckedForms :
          (Len(ops') > Len(ops) /\ ~runCompareDisabled /\ RunComparison(f))
          => LET req == ops'[Len(ops')].req
                 Entered(text, default) ==
                     IF ParseFloat(text).nan THEN default ELSE ParseFloat(text).n
             IN  /\ req.options.fuzzy_threshold = Entered(f.fuzzyThreshold, 80)
                 /\ req.tolerance.numeric = Entered(f.tolerance, 0)
                 /\ req.tolerance.date = Entered(f.dateTolerance, 0) ]_vars

\* --------------------------------------- claims about the comparison sections
\* How many results of the list carry the name.
Named(items, name) == Cardinality({k \in DOMAIN items : items[k].rule_name = name})

\* The place of a result in the order duplicates, unique, value differences,
\* aggregation.
SectionRank(item) ==
    CASE item.rule_name = "Duplicates" -> 1
      [] item.rule_name = "Value Differences" -> 3
      [] item.rule_name = "Aggregation" -> 4
      [] item.rule_name = "Comparison Results" -> 0
      [] OTHER -> 2

\* C31: the results of a comparison hold a duplicates result, a unique result
\* per source of the response and a value-differences result exactly when the
\* matching analysis toggle was on as the run was started and the response
\* has that section: at most one duplicates, one value-differences and one
\* unique result per source, in the order duplicates, unique, value
\* differences, aggregation.
C31_SectionsByToggleAndResponse ==
    [][ \A i \in DOMAIN ops :
          CompareSucceeds(i)
          => LET items == qcResults'.items
                 req == ops[i].req
                 data == CompareData(lastResp')
                 sent == {data.uniqueSources[k].source : k \in DOMAIN data.uniqueSources}
             IN  /\ Named(items, "Duplicates") =
                       IF req.analysis.duplicates /\ data.duplicates.present THEN 1 ELSE 0
                 /\ Named(items, "Value Differences") =
                       IF req.analysis.not_matched /\ data.not_matched.present THEN 1 ELSE 0
                 /\ \A source \in sent \cup Range(SourceIds) :
                       Named(items, source) =
                          IF req.analysis.unique /\ data.uniquePresent /\ source \in sent
                          THEN 1 ELSE 0
                 /\ \A j, k \in DOMAIN items :
                       j < k => SectionRank(items[j]) <= SectionRank(items[k]) ]_vars

\* A comparison started with the duplicates toggle on and the other two off
\* was answered with every section: only the duplicates and the aggregation
\* are shown.
C31_Witness ==
    /\ Len(ops) > 0
    /\ ops[1].kind = "compare" /\ ops[1].pc = "done" /\ ops[1].outcome = "ok"
    /\ lastResp.transport = "json"
    /\ CompareData(lastResp).uniquePresent
    /\ CompareData(lastResp).not_matched.present
    /\ Len(qcResults.items) = 2
    /\ qcResults.items[1].rule_name = "Duplicates"
    /\ qcResults.items[2].rule_name = "Aggregation"

\* C40: exportSection of a comparison card writes every row the backend
\* returned for that section: the file of the duplicates card has the header
\* and one line per row of data.duplicates.rows, whatever their number.
C40_ExportsEveryReturnedRow ==
    [][ \A resultIdx \in 0..1 :
          ( /\ download' # download
            /\ resultIdx + 1 \in DOMAIN rendered
            /\ rendered[resultIdx + 1].rule_name = "Duplicates"
            /\ lastResp.transport = "json"
            /\ ExportSection(resultIdx) )
          => download'.csv = CsvText(resultData[resultIdx].columns,
                                     CompareData(lastResp).duplicates.rows) ]_vars

\* ------------------------------------------- claims about the formula request
\* C37: every dispatched formula request that matches by key names only key
\* columns that source1 and source2 both have, also when a source was changed
\* after the key columns were chosen.
C37_KeyColumnsCommon ==
    \A i \in InFlight("formula") :
        ops[i].req.match_by = "key"
        => Range(ops[i].req.key_columns)
              \subseteq (Range(ColumnsOfSource(ops[i].req.source1_id))
                            \cap Range(ColumnsOfSource(ops[i].req.source2_id)))

\* ------------------------------------------- claims about the data viewer
\* C34: the rows the data viewer shows are those of the page and the source it
\* is on: once every page request made so far has been answered with rows, the
\* rows drawn are those at offset viewerPage * viewerPageSize of viewerSession,
\* viewerPageSize of them at most.
C34_ViewerShowsCurrentPage ==
    ( /\ previews # <<>>
      /\ \A i \in DOMAIN previews : previews[i].pc = "done" /\ previews[i].outcome = "ok" )
    => viewerBody = [session |-> viewerSession,
                     offset |-> viewerPage * viewerPageSize,
                     limit |-> viewerPageSize]

\* The last page of the viewer: max(0, ceil(viewerTotalRows / viewerPageSize) - 1).
LastPage ==
    IF (viewerTotalRows + viewerPageSize - 1) \div viewerPageSize > 0
    THEN (viewerTotalRows + viewerPageSize - 1) \div viewerPageSize - 1
    ELSE 0

\* C35: the page of the data viewer stays within its range: 0 <= viewerPage
\* <= max(0, ceil(viewerTotalRows / viewerPageSize) - 1) in every state; prev
\* on page 0 and next on the last page change nothing and request nothing;
\* a change of the page size and the opening of a source put the page at 0.
C35_PageWithinRange ==
    /\ [](viewerPage >= 0 /\ viewerPage <= LastPage)
    /\ [][ /\ (PrevPage /\ viewerPage = 0) => UNCHANGED vars
           /\ (NextPage /\ viewerPage = LastPage) => UNCHANGED vars
           /\ \A size \in {50, 100} : ChangePageSize(size) => viewerPage' = 0
           /\ (viewerSession' # viewerSession \/ viewerTotalRows' # viewerTotalRows)
                 => viewerPage' = 0 ]_vars

\* The viewer is on the last page of a source of 70 rows, 50 to a page: the
\* second page, reached by a press of next, and its rows have arrived.
C35_Witness ==
    /\ viewerSession # Null
    /\ viewerTotalRows = 70
    /\ viewerPageSize = 50
    /\ viewerPage = 1
    /\ viewerPage = LastPage
    /\ viewerBody.offset = 50

\* ------------------------------------------------ claims about the overlay
\* An operation that showed the overlay has not run to its end.
SomeInFlight == \E i \in DOMAIN ops : ops[i].pc # "done"

\* C5: every operation that shows the loading overlay hides it once its
\* request has settled, however it settled: whenever no such operation is in
\* flight the overlay is hidden, and if every request eventually settles the
\* overlay is eventually hidden.
C5_OverlayCleared ==
    /\ [](~SomeInFlight => overlay = "hidden")
    /\ (overlay = "visible") ~> (overlay = "hidden")

\* An upload whose file list came back and a connection test that failed at
\* the network have both run to their end, and the overlay is hidden.
C5_Witness ==
    /\ Len(ops) = 2
    /\ ops[1].kind = "upload" /\ ops[1].pc = "done" /\ ops[1].outcome = "ok"
    /\ ops[2].kind = "test" /\ ops[2].pc = "done" /\ ops[2].outcome = "failed"
    /\ overlay = "hidden"

====
